---- MODULE Spec2Model ----
(***************************************************************************)
(* State-machine model of visual-cortex-mcp: the InputValidator, the       *)
(* CommandExecutor (command gateway), the SimulatorService (facade) and    *)
(* the tools built on it.                                                  *)
(*                                                                         *)
(* JavaScript strings are sequences of one-character strings, so that the  *)
(* regular expressions, String(), Number() and toUpperCase() of the source *)
(* are computed character by character.  A JavaScript value is a record    *)
(* [t, i, h, s]: t is its type tag, a number is i + h/2 (i its floor, h in *)
(* {0,1}), s is the text of a string.                                      *)
(***************************************************************************)
EXTENDS Integers, Sequences, FiniteSets, TLC

VARIABLES sim, xcrunMode, call, res, log, tools

vars == <<sim, xcrunMode, call, res, log, tools>>

(***************************************************************************)
(* Bounds of the model.                                                    *)
(***************************************************************************)
\* how far beyond a numeric limit the sampled numbers go
MaxOver == 1
\* how many booted devices the enumeration may list
MaxDevices == 1
\* the number of nested calls the call stack of the engine has room for
CallStackLimit == 4
\* the largest number of nodes of an accessibility hierarchy
MaxNodes == 5
\* the largest number of devices "simctl list devices --json" lists
MaxListed == 2

(***************************************************************************)
(* Characters and strings.                                                 *)
(***************************************************************************)
LowerSeq == <<"a","b","c","d","e","f","g","h","i","j","k","l","m",
              "n","o","p","q","r","s","t","u","v","w","x","y","z">>
UpperSeq == <<"A","B","C","D","E","F","G","H","I","J","K","L","M",
              "N","O","P","Q","R","S","T","U","V","W","X","Y","Z">>
DigitSeq == <<"0","1","2","3","4","5","6","7","8","9">>

SeqRange(q) == {q[k] : k \in 1..Len(q)}

Lower == SeqRange(LowerSeq)
Upper == SeqRange(UpperSeq)
Digit == SeqRange(DigitSeq)

IndexOf(q, c) == CHOOSE k \in 1..Len(q) : q[k] = c

\* String.prototype.toUpperCase, one character
UpperChar(c) == IF c \in Lower THEN UpperSeq[IndexOf(LowerSeq, c)] ELSE c

\* String.prototype.toUpperCase
ToUpperCase(s) == [k \in 1..Len(s) |-> UpperChar(s[k])]

\* n copies of the character c
Rep(c, n) == [k \in 1..n |-> c]

\* F applied to the value of v, with v evaluated once (a const declaration)
Bind(v, F(_)) == CHOOSE y \in {F(w) : w \in {v}} : TRUE

\* String.prototype.includes / the position of the first occurrence (0: none)
OccursAt(s, sub, p) ==
    /\ p + Len(sub) - 1 <= Len(s)
    /\ \A k \in 1..Len(sub) : s[p + k - 1] = sub[k]

Includes(s, sub) == \E p \in 1..Len(s) : OccursAt(s, sub, p)

(***************************************************************************)
(* JavaScript values.                                                      *)
(***************************************************************************)
Undef     == [t |-> "undefined", i |-> 0, h |-> 0, s |-> <<>>]
Null      == [t |-> "null",      i |-> 0, h |-> 0, s |-> <<>>]
NaNV      == [t |-> "nan",       i |-> 0, h |-> 0, s |-> <<>>]
InfV      == [t |-> "inf",       i |-> 0, h |-> 0, s |-> <<>>]
NegInfV   == [t |-> "ninf",      i |-> 0, h |-> 0, s |-> <<>>]
Num(n)    == [t |-> "number",    i |-> n, h |-> 0, s |-> <<>>]
NumHalf(n) == [t |-> "number",   i |-> n, h |-> 1, s |-> <<>>]
StrV(q)   == [t |-> "string",    i |-> 0, h |-> 0, s |-> q]
BoolV(b)  == [t |-> "boolean",   i |-> IF b THEN 1 ELSE 0, h |-> 0, s |-> <<>>]

\* an array, and an object of an accessibility hierarchy: role-or-type, label,
\* identifier and children (an array, or undefined)
Arr(items) == [t |-> "array", items |-> items]
Node(type, label, id, children) ==
    [t |-> "object", type |-> type, AXLabel |-> label, AXUniqueId |-> id,
     children |-> children]

\* typeof v === "string"
IsString(v) == v.t = "string"

\* typeof v is "number" for finite numbers, NaN and the infinities
IsNumberType(v) == v.t \in {"number", "nan", "inf", "ninf"}

\* ToBoolean: what if (v), !v and v || d test
Truthy(v) ==
    CASE v.t \in {"undefined", "null", "nan"} -> FALSE
      [] v.t = "number"  -> ~(v.i = 0 /\ v.h = 0)
      [] v.t = "string"  -> Len(v.s) > 0
      [] v.t = "boolean" -> v.i = 1
      [] OTHER -> TRUE

DigitVal(c) == IndexOf(DigitSeq, c) - 1

RECURSIVE DigitsVal(_)
DigitsVal(s) ==
    IF Len(s) = 0 THEN 0
    ELSE 10 * DigitsVal(SubSeq(s, 1, Len(s) - 1)) + DigitVal(s[Len(s)])

AllDigits(s) == Len(s) > 0 /\ \A k \in 1..Len(s) : s[k] \in Digit

\* StringToNumber on the numeric literals of the model: "", [-]digits,
\* [-]digits.5 ; every other text is NaN.  (Strings with white space,
\* exponents or radix prefixes are not among the inputs of the model.)
StringToNumber(s) ==
    LET neg  == Len(s) > 0 /\ s[1] = "-"
        body == IF neg THEN SubSeq(s, 2, Len(s)) ELSE s
        half == Len(body) > 2 /\ SubSeq(body, Len(body) - 1, Len(body)) = <<".", "5">>
        int  == IF half THEN SubSeq(body, 1, Len(body) - 2) ELSE body
    IN  IF Len(s) = 0 THEN Num(0)
        ELSE IF ~AllDigits(int) THEN NaNV
        ELSE IF ~neg THEN (IF half THEN NumHalf(DigitsVal(int)) ELSE Num(DigitsVal(int)))
        ELSE IF half THEN NumHalf(0 - DigitsVal(int) - 1)
        ELSE Num(0 - DigitsVal(int))

\* Number(value)
ToNumber(v) ==
    CASE v.t = "undefined" -> NaNV
      [] v.t = "null"      -> Num(0)
      [] v.t = "boolean"   -> Num(v.i)
      [] v.t = "string"    -> StringToNumber(v.s)
      [] OTHER             -> v

\* Number.isFinite
IsFinite(n) == n.t = "number"

\* n < m and n > m for a finite number n = i + h/2 and an integer m
NumLess(n, m)    == n.i < m
NumGreater(n, m) == n.i > m \/ (n.i = m /\ n.h = 1)

RECURSIVE NatDigits(_)
NatDigits(n) ==
    IF n < 10 THEN <<DigitSeq[n + 1]>>
    ELSE NatDigits(n \div 10) \o <<DigitSeq[(n % 10) + 1]>>

\* String(num) of a finite number
NumToString(n) ==
    IF n.h = 0
    THEN IF n.i >= 0 THEN NatDigits(n.i) ELSE <<"-">> \o NatDigits(0 - n.i)
    ELSE IF n.i >= 0 THEN NatDigits(n.i) \o <<".", "5">>
         ELSE <<"-">> \o NatDigits(0 - n.i - 1) \o <<".", "5">>

(***************************************************************************)
(* InputValidator (src/src/utils/DeviceFormatter.js).  A validator returns *)
(* [err, val]: err is "" and val the returned value, or err is the message *)
(* of the Error it throws.                                                 *)
(***************************************************************************)
Ok(v)    == [err |-> "", val |-> v]
Throw(m) == [err |-> m, val |-> Undef]

MAX_ID_LENGTH    == 256
MAX_LABEL_LENGTH == 512
MAX_TEXT_LENGTH  == 10000
MAX_DURATION     == 60
DEFAULT_COORD_MIN == -10000
DEFAULT_COORD_MAX == 10000

\* /^[a-zA-Z0-9_\-.:]+$/
SAFE_ID_PATTERN(s) ==
    /\ Len(s) > 0
    /\ \A k \in 1..Len(s) : s[k] \in Lower \cup Upper \cup Digit \cup {"_", "-", ".", ":"}

\* the grave accent (U+0060), which the TLA+ lexer does not admit in a string
Backtick == "U+0060"

\* mutant: the class without the last two characters, ~ and !
SHELL_METACHARACTERS_short ==
    {";", "&", "|", Backtick, "$", "\\", "<", ">", "{", "}",
     "[", "]", "(", ")", "#", "*", "?"}

\* the character class of SHELL_METACHARACTERS: ; & | U+0060 $ \ < > { } [ ] ( ) # * ? ~ !
SHELL_METACHARACTERS ==
    {";", "&", "|", Backtick, "$", "\\", "<", ">", "{", "}",
     "[", "]", "(", ")", "#", "*", "?", "~", "!"}

\* SHELL_METACHARACTERS.test(s)
TestShellMeta(s) == \E k \in 1..Len(s) : s[k] \in SHELL_METACHARACTERS

validateAccessibilityId(id) ==
    IF ~IsString(id) THEN Throw("Accessibility ID must be a string")
    ELSE IF Len(id.s) = 0 THEN Throw("Accessibility ID cannot be empty")
    ELSE IF Len(id.s) > MAX_ID_LENGTH THEN Throw("Accessibility ID is too long")
    ELSE IF ~SAFE_ID_PATTERN(id.s) THEN Throw("Accessibility ID contains invalid characters")
    ELSE Ok(id)

validateAccessibilityLabel(label) ==
    IF ~IsString(label) THEN Throw("Accessibility label must be a string")
    ELSE IF Len(label.s) = 0 THEN Throw("Accessibility label cannot be empty")
    ELSE IF Len(label.s) > MAX_LABEL_LENGTH THEN Throw("Accessibility label is too long")
    ELSE IF TestShellMeta(label.s) THEN Throw("Accessibility label contains potentially unsafe characters")
    ELSE Ok(label)

validateTypeText(text) ==
    IF ~IsString(text) THEN Throw("Text must be a string")
    ELSE IF Len(text.s) = 0 THEN Throw("Text cannot be empty")
    ELSE IF Len(text.s) > MAX_TEXT_LENGTH THEN Throw("Text is too long")
    ELSE IF TestShellMeta(text.s) THEN Throw("Text contains potentially unsafe shell characters")
    ELSE Ok(text)

\* mutant: the endpoints min and max are refused
validateCoordinate_exclusive(value, min, max) ==
    LET num == ToNumber(value)
    IN  IF ~IsFinite(num) THEN Throw("must be a valid number")
        ELSE IF ~NumGreater(num, min) \/ ~NumLess(num, max)
             THEN Throw("must be between min and max")
        ELSE Ok(num)

validateCoordinate(value, min, max) ==
    LET num == ToNumber(value)
    IN  IF ~IsFinite(num) THEN Throw("must be a valid number")
        ELSE IF NumLess(num, min) \/ NumGreater(num, max) THEN Throw("must be between min and max")
        ELSE Ok(num)

validateDuration(value) ==
    LET num == ToNumber(value)
    IN  IF ~IsFinite(num) THEN Throw("Duration must be a valid number")
        ELSE IF NumLess(num, 0) \/ NumGreater(num, MAX_DURATION)
             THEN Throw("Duration must be between 0 and 60 seconds")
        ELSE Ok(num)

HexUpper == Digit \cup {"A", "B", "C", "D", "E", "F"}
HexAny   == HexUpper \cup {"a", "b", "c", "d", "e", "f"}

UDID_LENGTH == 36

\* [0-9A-F]{8}-[0-9A-F]{4}-[0-9A-F]{4}-[0-9A-F]{4}-[0-9A-F]{12} at position p of
\* s, over the hexadecimal digits hex (HexAny under the i flag)
UdidPatternAt(s, p, hex) ==
    /\ p + UDID_LENGTH - 1 <= Len(s)
    /\ \A k \in 1..UDID_LENGTH :
          IF k \in {9, 14, 19, 24} THEN s[p + k - 1] = "-" ELSE s[p + k - 1] \in hex

\* mutant: the pattern without its i flag
validateUDID_caseSensitive(udid) ==
    IF ~IsString(udid) THEN Throw("UDID must be a string")
    ELSE IF ~(Len(udid.s) = UDID_LENGTH /\ UdidPatternAt(udid.s, 1, HexUpper))
         THEN Throw("Invalid UDID format")
    ELSE Ok(StrV(ToUpperCase(udid.s)))

validateUDID(udid) ==
    IF ~IsString(udid) THEN Throw("UDID must be a string")
    ELSE IF ~(Len(udid.s) = UDID_LENGTH /\ UdidPatternAt(udid.s, 1, HexAny))
         THEN Throw("Invalid UDID format")
    ELSE Ok(StrV(ToUpperCase(udid.s)))

(***************************************************************************)
(* Text constants of the source, as strings of the model.                  *)
(***************************************************************************)
S_axe == <<"a","x","e">>
S_xcrun == <<"x","c","r","u","n">>
S_simctl == <<"s","i","m","c","t","l">>
S_list == <<"l","i","s","t">>
S_devices == <<"d","e","v","i","c","e","s">>
S_booted == <<"b","o","o","t","e","d">>
S_tap == <<"t","a","p">>
S_swipe == <<"s","w","i","p","e">>
S_gesture == <<"g","e","s","t","u","r","e">>
S_type == <<"t","y","p","e">>
S_describe_ui == <<"d","e","s","c","r","i","b","e","-","u","i">>
S_udid == <<"-","-","u","d","i","d">>
S_x == <<"-","x">>
S_y == <<"-","y">>
S_id == <<"-","-","i","d">>
S_label == <<"-","-","l","a","b","e","l">>
S_start_x == <<"-","-","s","t","a","r","t","-","x">>
S_start_y == <<"-","-","s","t","a","r","t","-","y">>
S_end_x == <<"-","-","e","n","d","-","x">>
S_end_y == <<"-","-","e","n","d","-","y">>
S_duration == <<"-","-","d","u","r","a","t","i","o","n">>
S_Booted == <<"B","o","o","t","e","d">>
S_io == <<"i","o">>
S_screenshot == <<"s","c","r","e","e","n","s","h","o","t">>
S_dash == <<"-">>
S_json == <<"-","-","j","s","o","n">>
S_constructor == <<"c","o","n","s","t","r","u","c","t","o","r">>
S_toString == <<"t","o","S","t","r","i","n","g">>
S_proto == <<"_","_","p","r","o","t","o","_","_">>
S_hasOwnProperty == <<"h","a","s","O","w","n","P","r","o","p","e","r","t","y">>
S_valueOf == <<"v","a","l","u","e","O","f">>
AXE_PATH == <<"/","o","p","t","/","h","o","m","e","b","r","e","w","/","b","i","n","/","a","x","e">>
XCRUN_PATH == <<"/","u","s","r","/","b","i","n","/","x","c","r","u","n">>
S_TapCompleted == <<"T","a","p"," ","c","o","m","p","l","e","t","e","d">>
S_SwipeCompleted == <<"S","w","i","p","e"," ","c","o","m","p","l","e","t","e","d">>
S_TextTyped == <<"T","e","x","t"," ","t","y","p","e","d"," ","s","u","c","c","e","s","s","f","u","l","l","y">>
S_Gesture_ == <<"G","e","s","t","u","r","e"," ">>
S__completed == <<" ","c","o","m","p","l","e","t","e","d">>
S_DevicesHeader == <<"=","="," ","D","e","v","i","c","e","s"," ","=","=","\n">>
S_RuntimeHeader == <<"-","-"," ","i","O","S"," ","1","7",".","0"," ","-","-","\n">>
S_DeviceIndent == <<" "," "," "," ","i","P","h","o","n","e"," ","1","5"," ","(">>
S_BootedSuffix == <<")"," ","(","B","o","o","t","e","d",")"," ","\n">>

\* validPresets of SimulatorService.gesture
validPresets ==
    <<<<"s","c","r","o","l","l","-","u","p">>,
      <<"s","c","r","o","l","l","-","d","o","w","n">>,
      <<"s","c","r","o","l","l","-","l","e","f","t">>,
      <<"s","c","r","o","l","l","-","r","i","g","h","t">>,
      <<"s","w","i","p","e","-","f","r","o","m","-","l","e","f","t","-","e","d","g","e">>,
      <<"s","w","i","p","e","-","f","r","o","m","-","r","i","g","h","t","-","e","d","g","e">>,
      <<"s","w","i","p","e","-","f","r","o","m","-","t","o","p","-","e","d","g","e">>,
      <<"s","w","i","p","e","-","f","r","o","m","-","b","o","t","t","o","m","-","e","d","g","e">>>>

(***************************************************************************)
(* The environment: the simulators that are booted, and how the external   *)
(* programs answer.  env = [sim, xcrunMode, ext, after]: sim lists the     *)
(* identifiers of the booted devices (after: those booted once the probe   *)
(* of a tool is over), xcrunMode says how the enumeration command ends,     *)
(* ext is the answer of the other command of the call (axe, or another      *)
(* xcrun sub-command).  A process answer is [error, status, killed, stdout, *)
(* stderr, bytes]: error is spawnSync's result.error, killed stands for a   *)
(* null status, bytes is the number of bytes the process writes to stdout.  *)
(* spawnSync adds captured, the number of those bytes its result holds.     *)
(***************************************************************************)
Answer(st, out, errText) ==
    [error |-> FALSE, status |-> st, killed |-> FALSE, stdout |-> out, stderr |-> errText,
     bytes |-> Len(out)]

LaunchFailure ==
    [error |-> TRUE, status |-> 0, killed |-> TRUE, stdout |-> <<>>, stderr |-> <<>>,
     bytes |-> 0]

Killed ==
    [error |-> FALSE, status |-> 0, killed |-> TRUE, stdout |-> <<>>, stderr |-> <<>>,
     bytes |-> 0]

\* a process that writes n bytes and exits with status 0; stdout holds the
\* first of them
Flood(n) ==
    [error |-> FALSE, status |-> 0, killed |-> FALSE, stdout |-> <<"[", "]">>,
     stderr |-> <<>>, bytes |-> n]

\* the text "xcrun simctl list devices booted" prints for the booted devices
RECURSIVE DeviceLines(_)
DeviceLines(devs) ==
    IF Len(devs) = 0 THEN <<>>
    ELSE S_DeviceIndent \o Head(devs) \o S_BootedSuffix \o DeviceLines(Tail(devs))

ListBootedText(devs) ==
    S_DevicesHeader \o (IF Len(devs) = 0 THEN <<>> ELSE S_RuntimeHeader) \o DeviceLines(devs)

ListBootedArgs == <<S_simctl, S_list, S_devices, S_booted>>

\* maxBuffer: 10 * 1024 * 1024
MAX_BUFFER == 10 * 1024 * 1024

\* what the launched program does
Launched(file, args, env) ==
    IF file = XCRUN_PATH /\ args = ListBootedArgs
    THEN CASE env.xcrunMode = "ok"    -> Answer(0, ListBootedText(env.sim), <<>>)
           [] env.xcrunMode = "fail"  -> Answer(1, <<>>, <<"x","c","r","u","n",":"," ","e","r","r","o","r">>)
           [] env.xcrunMode = "flood" -> Flood(MAX_BUFFER + 1)
           [] OTHER                   -> LaunchFailure
    ELSE IF file \in {XCRUN_PATH, AXE_PATH} THEN env.ext
    ELSE LaunchFailure

\* the maxBuffer of spawnSync when its options name none
DEFAULT_MAX_BUFFER == 1024 * 1024

\* options.maxBuffer as spawnSync reads it
MaxBufferOf(options) ==
    IF "maxBuffer" \in DOMAIN options THEN options.maxBuffer ELSE DEFAULT_MAX_BUFFER

\* child_process.spawnSync(file, args, options) with a string file: output
\* beyond options.maxBuffer ends the child and is reported as result.error
\* (ENOBUFS) with a null status and the output captured so far
spawnSync(file, args, options, env) ==
    Bind(Launched(file, args, env), LAMBDA a :
      IF a.bytes > MaxBufferOf(options)
      THEN [error |-> TRUE, status |-> 0, killed |-> TRUE, stdout |-> a.stdout,
            stderr |-> a.stderr, bytes |-> a.bytes, captured |-> MaxBufferOf(options)]
      ELSE [error |-> a.error, status |-> a.status, killed |-> a.killed, stdout |-> a.stdout,
            stderr |-> a.stderr, bytes |-> a.bytes, captured |-> a.bytes])

(***************************************************************************)
(* CommandExecutor (the version with absolute paths, src/README.md).       *)
(* A call returns [err, val, log]: log is the sequence of the processes    *)
(* the call launched, each [file, args, shell, answer].                    *)
(***************************************************************************)
Done(v, lg) == [err |-> "", val |-> v, log |-> lg]
Fail(m, lg) == [err |-> m, val |-> Undef, log |-> lg]

\* the own keys of ALLOWED_COMMANDS and their values
ALLOWED_COMMANDS == [k \in {S_axe, S_xcrun} |-> IF k = S_axe THEN AXE_PATH ELSE XCRUN_PATH]

\* property names every plain object inherits from Object.prototype
ObjectPrototypeKeys == {S_constructor, S_toString, S_proto, S_hasOwnProperty, S_valueOf}

\* the objects and functions those properties hold: not strings
InheritedValue == [t |-> "object", i |-> 0, h |-> 0, s |-> <<>>]

\* name in ALLOWED_COMMANDS
InAllowedCommands(name) == name \in DOMAIN ALLOWED_COMMANDS \cup ObjectPrototypeKeys

\* mutant: the logical name itself is launched, found through PATH
AllowedCommandsGet_bareName(name) ==
    IF name \in DOMAIN ALLOWED_COMMANDS THEN StrV(name)
    ELSE IF name \in ObjectPrototypeKeys THEN InheritedValue
    ELSE Undef

\* ALLOWED_COMMANDS[name]
AllowedCommandsGet(name) ==
    IF name \in DOMAIN ALLOWED_COMMANDS THEN StrV(ALLOWED_COMMANDS[name])
    ELSE IF name \in ObjectPrototypeKeys THEN InheritedValue
    ELSE Undef

\* mutant: the ceiling is twice as high
defaultOptions_unbounded ==
    [encoding |-> "utf8", maxBuffer |-> 2 * MAX_BUFFER, shell |-> FALSE]

defaultOptions == [encoding |-> "utf8", maxBuffer |-> MAX_BUFFER, shell |-> FALSE]

\* { ...a, ...b }
Spread(a, b) == [k \in DOMAIN a \cup DOMAIN b |-> IF k \in DOMAIN b THEN b[k] ELSE a[k]]

\* mutant: the status is tested for truth, a null status passes
RunAllowed_truthyStatus(fullPath, args, options, env) ==
    IF ~IsString(fullPath) THEN Fail("ERR_INVALID_ARG_TYPE", <<>>)
    ELSE Bind(spawnSync(fullPath.s, args, options, env), LAMBDA result :
           Bind(<<[file |-> fullPath.s, args |-> args, shell |-> options.shell,
                   answer |-> result]>>, LAMBDA entry :
             IF result.error THEN Fail("spawn error", entry)
             ELSE IF ~result.killed /\ result.status # 0
                  THEN Fail(IF options.encoding = "null" \/ Len(result.stderr) > 0
                            THEN "stderr"
                            ELSE "Command failed with status", entry)
             ELSE Done(StrV(result.stdout), entry)))

\* the part of execute and executeSafeCommand after the allow-list check:
\* spawnSync at the looked-up path, then the checks of its result
RunAllowed(fullPath, args, options, env) ==
    IF ~IsString(fullPath) THEN Fail("ERR_INVALID_ARG_TYPE", <<>>)
    ELSE Bind(spawnSync(fullPath.s, args, options, env), LAMBDA result :
           Bind(<<[file |-> fullPath.s, args |-> args, shell |-> options.shell,
                   answer |-> result]>>, LAMBDA entry :
             IF result.error THEN Fail("spawn error", entry)
             ELSE IF result.killed \/ result.status # 0
                  THEN Fail(IF options.encoding = "null" \/ Len(result.stderr) > 0
                            THEN "stderr"
                            ELSE "Command failed with status", entry)
             ELSE Done(StrV(result.stdout), entry)))

\* CommandExecutor.execute(command, options); val is result.stdout
execute(command, options, env) ==
    LET commandName == command[1]
    IN  IF ~InAllowedCommands(commandName) THEN Fail("Command not allowed", <<>>)
        ELSE RunAllowed(AllowedCommandsGet(commandName), Tail(command),
                        Spread(defaultOptions, options), env)

\* CommandExecutor.executeSafeCommand(command, args)
executeSafeCommand(command, args, env) ==
    IF ~InAllowedCommands(command) THEN Fail("Command not allowed", <<>>)
    ELSE RunAllowed(AllowedCommandsGet(command), args,
                    [encoding |-> "utf8", shell |-> FALSE], env)

(***************************************************************************)
(* SimulatorService (src/src/services/SimulatorService.js).                *)
(***************************************************************************)
COORD_MIN == 0
COORD_MAX == 5000

Utf8 == [encoding |-> "utf8"]

\* mutant: the catch block answers true
isSimulatorBooted_trueOnFailure(env) ==
    Bind(executeSafeCommand(S_xcrun, ListBootedArgs, env), LAMBDA r :
      IF r.err # "" THEN Done(BoolV(TRUE), r.log)
      ELSE Done(BoolV(Includes(r.val.s, S_Booted)), r.log))

\* mutant: no try and catch around the enumeration
isSimulatorBooted_throwing(env) ==
    Bind(executeSafeCommand(S_xcrun, ListBootedArgs, env), LAMBDA r :
      IF r.err # "" THEN Fail(r.err, r.log)
      ELSE Done(BoolV(Includes(r.val.s, S_Booted)), r.log))

\* SimulatorService.isSimulatorBooted: val is the boolean it returns
isSimulatorBooted(env) ==
    Bind(executeSafeCommand(S_xcrun, ListBootedArgs, env), LAMBDA r :
      IF r.err # "" THEN Done(BoolV(FALSE), r.log)
      ELSE Done(BoolV(Includes(r.val.s, S_Booted)), r.log))

\* the first match of /([0-9A-F]{8}-[0-9A-F]{4}-[0-9A-F]{4}-[0-9A-F]{4}-[0-9A-F]{12})/
FirstUdidMatch(output) ==
    LET hits == {p \in 1..Len(output) : UdidPatternAt(output, p, HexUpper)}
    IN  IF hits = {} THEN Null
        ELSE LET p == CHOOSE q \in hits : \A o \in hits : q <= o
             IN  StrV(SubSeq(output, p, p + UDID_LENGTH - 1))

\* mutant: the identifier found by an earlier call is kept and reused
getBootedUDID_cached(env) ==
    Done(StrV(<<"A","1","B","2","C","3","D","4","-","E","5","F","6","-","4","A","7","B","-","8","C","9","D","-","0","E","1","F","2","A","3","B","4","C","5","D">>), <<>>)

\* mutant: every device is enumerated, not only the booted ones
getBootedUDID_allDevices(env) ==
    Bind(executeSafeCommand(S_xcrun, <<S_simctl, S_list, S_devices>>, env), LAMBDA r :
      IF r.err # "" THEN Done(Null, r.log)
      ELSE Done(FirstUdidMatch(r.val.s), r.log))

\* SimulatorService.getBootedUDID
getBootedUDID(env) ==
    Bind(executeSafeCommand(S_xcrun, ListBootedArgs, env), LAMBDA r :
      IF r.err # "" THEN Done(Null, r.log)
      ELSE Done(FirstUdidMatch(r.val.s), r.log))

\* result.stdout || message
OrDefault(v, message) == IF Truthy(v) THEN v ELSE StrV(message)

\* mutant: the identifier goes into the vector without validation
TapSelector_rawId(options) ==
    IF options.x # Undef /\ options.y # Undef
    THEN LET x == validateCoordinate(options.x, COORD_MIN, COORD_MAX)
             y == validateCoordinate(options.y, COORD_MIN, COORD_MAX)
         IN  IF x.err # "" THEN [err |-> x.err, args |-> <<>>]
             ELSE IF y.err # "" THEN [err |-> y.err, args |-> <<>>]
             ELSE [err |-> "", args |-> <<S_x, NumToString(x.val), S_y, NumToString(y.val)>>]
    ELSE IF Truthy(options.id)
    THEN [err |-> "", args |-> <<S_id, options.id.s>>]
    ELSE IF Truthy(options.label)
    THEN LET validatedLabel == validateAccessibilityLabel(options.label)
         IN  IF validatedLabel.err # "" THEN [err |-> validatedLabel.err, args |-> <<>>]
             ELSE [err |-> "", args |-> <<S_label, validatedLabel.val.s>>]
    ELSE [err |-> "Must provide either coordinates (x, y), accessibility id, or label",
          args |-> <<>>]

\* the selector part of tap's argument vector: [err, args]
TapSelector(options) ==
    IF options.x # Undef /\ options.y # Undef
    THEN LET x == validateCoordinate(options.x, COORD_MIN, COORD_MAX)
             y == validateCoordinate(options.y, COORD_MIN, COORD_MAX)
         IN  IF x.err # "" THEN [err |-> x.err, args |-> <<>>]
             ELSE IF y.err # "" THEN [err |-> y.err, args |-> <<>>]
             ELSE [err |-> "", args |-> <<S_x, NumToString(x.val), S_y, NumToString(y.val)>>]
    ELSE IF Truthy(options.id)
    THEN LET validatedId == validateAccessibilityId(options.id)
         IN  IF validatedId.err # "" THEN [err |-> validatedId.err, args |-> <<>>]
             ELSE [err |-> "", args |-> <<S_id, validatedId.val.s>>]
    ELSE IF Truthy(options.label)
    THEN LET validatedLabel == validateAccessibilityLabel(options.label)
         IN  IF validatedLabel.err # "" THEN [err |-> validatedLabel.err, args |-> <<>>]
             ELSE [err |-> "", args |-> <<S_label, validatedLabel.val.s>>]
    ELSE [err |-> "Must provide either coordinates (x, y), accessibility id, or label",
          args |-> <<>>]

\* SimulatorService.tap(options)
tap(options, env) ==
    Bind(getBootedUDID(env), LAMBDA u :
      IF ~Truthy(u.val) THEN Fail("No simulator is currently booted", u.log)
      ELSE Bind(validateUDID(u.val), LAMBDA validatedUdid :
        IF validatedUdid.err # "" THEN Fail(validatedUdid.err, u.log)
        ELSE Bind(TapSelector(options), LAMBDA sel :
          IF sel.err # "" THEN Fail(sel.err, u.log)
          ELSE Bind(execute(<<S_axe, S_tap, S_udid, validatedUdid.val.s>> \o sel.args,
                            Utf8, env), LAMBDA result :
            IF result.err # "" THEN Fail(result.err, u.log \o result.log)
            ELSE Done(OrDefault(result.val, S_TapCompleted), u.log \o result.log)))))

\* mutant: a duration is used when it is truthy, so 0 is dropped
DurationArgs_truthy(options) ==
    IF Truthy(options.duration)
    THEN LET duration == validateDuration(options.duration)
         IN  IF duration.err # "" THEN [err |-> duration.err, args |-> <<>>]
             ELSE [err |-> "", args |-> <<S_duration, NumToString(duration.val)>>]
    ELSE [err |-> "", args |-> <<>>]

\* the optional "--duration" part of an argument vector: [err, args]
DurationArgs(options) ==
    IF options.duration # Undef
    THEN LET duration == validateDuration(options.duration)
         IN  IF duration.err # "" THEN [err |-> duration.err, args |-> <<>>]
             ELSE [err |-> "", args |-> <<S_duration, NumToString(duration.val)>>]
    ELSE [err |-> "", args |-> <<>>]

\* SimulatorService.swipe(options)
swipe(options, env) ==
    LET startX == validateCoordinate(options.startX, COORD_MIN, COORD_MAX)
        startY == validateCoordinate(options.startY, COORD_MIN, COORD_MAX)
        endX == validateCoordinate(options.endX, COORD_MIN, COORD_MAX)
        endY == validateCoordinate(options.endY, COORD_MIN, COORD_MAX)
    IN  Bind(getBootedUDID(env), LAMBDA u :
          IF ~Truthy(u.val) THEN Fail("No simulator is currently booted", u.log)
          ELSE Bind(validateUDID(u.val), LAMBDA validatedUdid :
            IF validatedUdid.err # "" THEN Fail(validatedUdid.err, u.log)
            ELSE IF startX.err # "" THEN Fail(startX.err, u.log)
            ELSE IF startY.err # "" THEN Fail(startY.err, u.log)
            ELSE IF endX.err # "" THEN Fail(endX.err, u.log)
            ELSE IF endY.err # "" THEN Fail(endY.err, u.log)
            ELSE Bind(DurationArgs(options), LAMBDA dur :
              IF dur.err # "" THEN Fail(dur.err, u.log)
              ELSE Bind(execute(<<S_axe, S_swipe,
                                  S_start_x, NumToString(startX.val),
                                  S_start_y, NumToString(startY.val),
                                  S_end_x, NumToString(endX.val),
                                  S_end_y, NumToString(endY.val),
                                  S_udid, validatedUdid.val.s>> \o dur.args,
                                Utf8, env), LAMBDA result :
                IF result.err # "" THEN Fail(result.err, u.log \o result.log)
                ELSE Done(OrDefault(result.val, S_SwipeCompleted), u.log \o result.log)))))

\* validPresets.includes(preset)
IsValidPreset(preset) ==
    IsString(preset) /\ \E k \in 1..Len(validPresets) : validPresets[k] = preset.s

\* SimulatorService.gesture(preset, options)
gesture(preset, options, env) ==
    Bind(getBootedUDID(env), LAMBDA u :
      IF ~Truthy(u.val) THEN Fail("No simulator is currently booted", u.log)
      ELSE IF ~IsValidPreset(preset) THEN Fail("Invalid gesture preset", u.log)
      ELSE Bind(validateUDID(u.val), LAMBDA validatedUdid :
        IF validatedUdid.err # "" THEN Fail(validatedUdid.err, u.log)
        ELSE Bind(DurationArgs(options), LAMBDA dur :
          IF dur.err # "" THEN Fail(dur.err, u.log)
          ELSE Bind(execute(<<S_axe, S_gesture, preset.s, S_udid, validatedUdid.val.s>>
                              \o dur.args, Utf8, env), LAMBDA result :
            IF result.err # "" THEN Fail(result.err, u.log \o result.log)
            ELSE Done(OrDefault(result.val, S_Gesture_ \o preset.s \o S__completed),
                      u.log \o result.log)))))

\* mutant: a failed axe type is tried a second time
typeText_retry(text, env) ==
    Bind(getBootedUDID(env), LAMBDA u :
      IF ~Truthy(u.val) THEN Fail("No simulator is currently booted", u.log)
      ELSE Bind(validateTypeText(text), LAMBDA validatedText :
        IF validatedText.err # "" THEN Fail(validatedText.err, u.log)
        ELSE Bind(validateUDID(u.val), LAMBDA validatedUdid :
          IF validatedUdid.err # "" THEN Fail(validatedUdid.err, u.log)
          ELSE Bind(execute(<<S_axe, S_type, validatedText.val.s, S_udid,
                              validatedUdid.val.s>>, Utf8, env), LAMBDA result :
            IF result.err = ""
            THEN Done(OrDefault(result.val, S_TextTyped), u.log \o result.log)
            ELSE Bind(execute(<<S_axe, S_type, validatedText.val.s, S_udid,
                                validatedUdid.val.s>>, Utf8, env), LAMBDA again :
              IF again.err # "" THEN Fail(again.err, u.log \o result.log \o again.log)
              ELSE Done(OrDefault(again.val, S_TextTyped),
                        u.log \o result.log \o again.log))))))

\* SimulatorService.typeText(text)
typeText(text, env) ==
    Bind(getBootedUDID(env), LAMBDA u :
      IF ~Truthy(u.val) THEN Fail("No simulator is currently booted", u.log)
      ELSE Bind(validateTypeText(text), LAMBDA validatedText :
        IF validatedText.err # "" THEN Fail(validatedText.err, u.log)
        ELSE Bind(validateUDID(u.val), LAMBDA validatedUdid :
          IF validatedUdid.err # "" THEN Fail(validatedUdid.err, u.log)
          ELSE Bind(execute(<<S_axe, S_type, validatedText.val.s, S_udid,
                              validatedUdid.val.s>>, Utf8, env), LAMBDA result :
            IF result.err # "" THEN Fail(result.err, u.log \o result.log)
            ELSE Done(OrDefault(result.val, S_TextTyped), u.log \o result.log)))))

\* a hierarchy dump: an unlabelled container with one labelled child
S_tree == <<"[","{","\"","t","y","p","e","\"",":","\"","G","r","o","u","p","\"",",","\"","c","h","i","l","d","r","e","n","\"",":","[","{","\"","t","y","p","e","\"",":","\"","B","u","t","t","o","n","\"",",","\"","A","X","L","a","b","e","l","\"",":","\"","O","K","\"",",","\"","c","h","i","l","d","r","e","n","\"",":","[","]","}","]","}","]">>

S_Group == <<"G","r","o","u","p">>
S_Button == <<"B","u","t","t","o","n">>
S_Unknown == <<"U","n","k","n","o","w","n">>

\* mutant: a text that is no JSON parses as an empty array
JSONParse_lenient(text) ==
    IF text = <<"{", "}">> THEN Ok(Node(Undef, Undef, Undef, Undef))
    ELSE IF text = S_tree
    THEN Ok(Arr(<<Node(StrV(S_Group), Undef, Undef,
                       Arr(<<Node(StrV(S_Button), StrV(<<"O", "K">>), Undef, Arr(<<>>))>>))>>))
    ELSE Ok(Arr(<<>>))

\* JSON.parse on the outputs of the model: "[]", "{}" and the dump S_tree are
\* well formed, every other text is a SyntaxError
JSONParse(text) ==
    IF text = <<"[", "]">> THEN Ok(Arr(<<>>))
    ELSE IF text = <<"{", "}">> THEN Ok(Node(Undef, Undef, Undef, Undef))
    ELSE IF text = S_tree
    THEN Ok(Arr(<<Node(StrV(S_Group), Undef, Undef,
                       Arr(<<Node(StrV(S_Button), StrV(<<"O", "K">>), Undef, Arr(<<>>))>>))>>))
    ELSE Throw("SyntaxError")

\* SimulatorService.getDevices: val is the parsed output
getDevices(env) ==
    Bind(execute(<<S_xcrun, S_simctl, S_list, S_devices, S_json>>, [k \in {} |-> ""], env),
         LAMBDA result :
      IF result.err # "" THEN Fail(result.err, result.log)
      ELSE Bind(JSONParse(result.val.s), LAMBDA parsed :
        IF parsed.err # "" THEN Fail(parsed.err, result.log)
        ELSE Done(parsed.val, result.log)))

\* SimulatorService.takeScreenshot: val is the buffer result.stdout
takeScreenshot(env) ==
    Bind(execute(<<S_xcrun, S_simctl, S_io, S_booted, S_screenshot, S_dash>>,
                 [encoding |-> "null", maxBuffer |-> MAX_BUFFER], env), LAMBDA result :
      IF result.err # "" THEN Fail(result.err, result.log)
      ELSE Done(result.val, result.log))

\* SimulatorService.describeUI()
describeUI(env) ==
    Bind(getBootedUDID(env), LAMBDA u :
      IF ~Truthy(u.val) THEN Fail("No simulator is currently booted", u.log)
      ELSE Bind(validateUDID(u.val), LAMBDA validatedUdid :
        IF validatedUdid.err # "" THEN Fail(validatedUdid.err, u.log)
        ELSE Bind(execute(<<S_axe, S_describe_ui, S_udid, validatedUdid.val.s>>,
                          Utf8, env), LAMBDA result :
          IF result.err # "" THEN Fail(result.err, u.log \o result.log)
          ELSE Bind(JSONParse(result.val.s), LAMBDA parsed :
            IF parsed.err # "" THEN Fail(parsed.err, u.log \o result.log)
            ELSE Done(parsed.val, u.log \o result.log)))))

(***************************************************************************)
(* DeviceFormatter (src/src/utils/DeviceFormatter.js).  The parsed output   *)
(* of "simctl list devices --json" is an object whose devices field is a    *)
(* sequence of [runtime, list], one per key in the order of the keys, each  *)
(* list a sequence of devices [name, udid, state, isAvailable,              *)
(* deviceTypeIdentifier].                                                   *)
(***************************************************************************)
\* the number of digits of s from position p on
RECURSIVE DigitRun(_, _)
DigitRun(s, p) ==
    IF p <= Len(s) /\ s[p] \in Digit THEN 1 + DigitRun(s, p + 1) ELSE 0

\* /iOS-(\d+)-(\d+)/ matches at position p
IOSMatchAt(s, p) ==
    /\ OccursAt(s, <<"i", "O", "S", "-">>, p)
    /\ LET n == DigitRun(s, p + 4)
       IN  /\ n > 0
           /\ p + 4 + n <= Len(s)
           /\ s[p + 4 + n] = "-"
           /\ DigitRun(s, p + 5 + n) > 0

\* mutant: the version is printed with the hyphen of the key
extractIOSVersion_hyphen(runtime) ==
    LET hits == {p \in 1..Len(runtime) : IOSMatchAt(runtime, p)}
    IN  IF hits = {} THEN runtime
        ELSE LET p == CHOOSE q \in hits : \A o \in hits : q <= o
                 n == DigitRun(runtime, p + 4)
                 m == DigitRun(runtime, p + 5 + n)
             IN  <<"i", "O", "S", " ">> \o SubSeq(runtime, p + 4, p + 4 + n + m)

\* DeviceFormatter.extractIOSVersion(runtime)
extractIOSVersion(runtime) ==
    LET hits == {p \in 1..Len(runtime) : IOSMatchAt(runtime, p)}
    IN  IF hits = {} THEN runtime
        ELSE LET p == CHOOSE q \in hits : \A o \in hits : q <= o
                 n == DigitRun(runtime, p + 4)
                 m == DigitRun(runtime, p + 5 + n)
             IN  <<"i", "O", "S", " ">> \o SubSeq(runtime, p + 4, p + 3 + n) \o <<".">>
                     \o SubSeq(runtime, p + 5 + n, p + 4 + n + m)

\* devicesData.devices || {}
DevicesOf(devicesData) ==
    IF "devices" \in DOMAIN devicesData THEN devicesData.devices ELSE <<>>

\* the devices of one runtime that parseDevices keeps
RECURSIVE ParseList(_, _, _)
ParseList(runtime, deviceList, availableOnly) ==
    IF Len(deviceList) = 0 THEN <<>>
    ELSE LET device == Head(deviceList)
             rest == ParseList(runtime, Tail(deviceList), availableOnly)
         IN  IF availableOnly /\ ~Truthy(device.isAvailable) THEN rest
             ELSE <<[name |-> device.name, udid |-> device.udid, state |-> device.state,
                     runtime |-> extractIOSVersion(runtime),
                     isAvailable |-> device.isAvailable,
                     deviceType |-> device.deviceTypeIdentifier]>> \o rest

RECURSIVE ParseEntries(_, _)
ParseEntries(entries, availableOnly) ==
    IF Len(entries) = 0 THEN <<>>
    ELSE ParseList(Head(entries).runtime, Head(entries).list, availableOnly)
             \o ParseEntries(Tail(entries), availableOnly)

\* mutant: the filter is not applied
parseDevices_ignoreFlag(devicesData, availableOnly) ==
    ParseEntries(DevicesOf(devicesData), FALSE)

\* DeviceFormatter.parseDevices(devicesData, availableOnly)
parseDevices(devicesData, availableOnly) ==
    ParseEntries(DevicesOf(devicesData), availableOnly)

\* a.localeCompare(b) < 0 for names of lower-case letters and digits
RECURSIVE NameBefore(_, _)
NameBefore(a, b) ==
    IF Len(b) = 0 THEN FALSE
    ELSE IF Len(a) = 0 THEN TRUE
    ELSE IF Head(a) = Head(b) THEN NameBefore(Tail(a), Tail(b))
    ELSE IndexOf(DigitSeq \o LowerSeq, Head(a)) < IndexOf(DigitSeq \o LowerSeq, Head(b))

\* the comparator of sortDevices is negative for (a, b)
DeviceBefore(a, b) ==
    LET aBooted == a.state = StrV(S_Booted)
        bBooted == b.state = StrV(S_Booted)
    IN  IF aBooted /\ ~bBooted THEN TRUE
        ELSE IF ~aBooted /\ bBooted THEN FALSE
        ELSE NameBefore(a.name.s, b.name.s)

\* d put into the sorted sequence q behind the devices it is not before
RECURSIVE InsertDevice(_, _)
InsertDevice(q, d) ==
    IF Len(q) = 0 THEN <<d>>
    ELSE IF DeviceBefore(d, Head(q)) THEN <<d>> \o q
    ELSE <<Head(q)>> \o InsertDevice(Tail(q), d)

\* DeviceFormatter.sortDevices(devices): a stable sort
RECURSIVE sortDevices(_)
sortDevices(devices) ==
    IF Len(devices) = 0 THEN <<>>
    ELSE InsertDevice(sortDevices(SubSeq(devices, 1, Len(devices) - 1)),
                      devices[Len(devices)])

\* DeviceFormatter.formatDevices(devices): the count of the heading, the
\* devices in the order they are printed, the count of the closing line
formatDevices(devices) ==
    [count |-> Len(devices),
     devices |-> devices,
     bootedCount |-> Cardinality({k \in 1..Len(devices) : devices[k].state = StrV(S_Booted)})]

(***************************************************************************)
(* Tools (src/unnamed/part_002, src/src/tools/SwipeTool.js).  execute       *)
(* returns [resp, log]; resp is the response [isError, context, message,    *)
(* text]: an error response's text is "context: message", a success         *)
(* response's text names what was done and with which arguments.            *)
(***************************************************************************)
\* mutant: an error response without its isError flag
createErrorResponse_noFlag(message, context) ==
    [isError |-> FALSE, context |-> context, message |-> message,
     text |-> [what |-> "", a |-> Undef, b |-> Undef], content |-> <<"text">>]

\* BaseTool.createErrorResponse(error, context)
createErrorResponse(message, context) ==
    [isError |-> TRUE, context |-> context, message |-> message,
     text |-> [what |-> "", a |-> Undef, b |-> Undef], content |-> <<"text">>]

\* BaseTool.createTextResponse(text)
createTextResponse(what, a, b) ==
    [isError |-> FALSE, context |-> "", message |-> "",
     text |-> [what |-> what, a |-> a, b |-> b], content |-> <<"text">>]

\* BaseTool.createImageResponse(base64Image, mimeType, text)
createImageResponse(base64Image, mimeType, text) ==
    [isError |-> FALSE, context |-> "", message |-> "",
     text |-> [what |-> text, a |-> base64Image, b |-> StrV(mimeType)],
     content |-> IF Len(text) > 0 THEN <<"image", "text">> ELSE <<"image">>]

Reply(resp, lg) == [resp |-> resp, log |-> lg]

\* mutant: the facade works with the devices the probe of the tool saw
Later_stale(env) == env

\* the environment when the facade operation of a tool runs: the probe is
\* over, the booted devices are those of env.after
Later(env) == [env EXCEPT !.sim = env.after]

\* TapTool.execute(args)
TapToolExecute(args, env) ==
    LET hasCoordinates == args.x # Undef /\ args.y # Undef
        hasId == args.id # Undef
        hasLabel == args.label # Undef
    IN  Bind(isSimulatorBooted(env), LAMBDA b :
          IF ~Truthy(b.val)
          THEN Reply(createErrorResponse("No iOS Simulator is currently running",
                                         "Please launch a simulator first"), b.log)
          ELSE IF ~hasCoordinates /\ ~hasId /\ ~hasLabel
          THEN Reply(createErrorResponse("Missing required arguments",
                       "Provide either coordinates (x, y), accessibility id, or label"), b.log)
          ELSE Bind(tap([x |-> args.x, y |-> args.y, id |-> args.id, label |-> args.label],
                        Later(env)), LAMBDA result :
            IF result.err # ""
            THEN Reply(createErrorResponse(result.err, "Failed to tap"), b.log \o result.log)
            ELSE IF hasCoordinates
            THEN Reply(createTextResponse("Tapped at coordinates", args.x, args.y),
                       b.log \o result.log)
            ELSE IF hasId
            THEN Reply(createTextResponse("Tapped element with id", args.id, Undef),
                       b.log \o result.log)
            ELSE Reply(createTextResponse("Tapped element with label", args.label, Undef),
                       b.log \o result.log)))

\* SwipeTool.execute(args)
SwipeToolExecute(args, env) ==
    LET hasCoordinates == /\ args.startX # Undef /\ args.startY # Undef
                          /\ args.endX # Undef /\ args.endY # Undef
    IN  Bind(isSimulatorBooted(env), LAMBDA b :
          IF ~Truthy(b.val)
          THEN Reply(createErrorResponse("No iOS Simulator is currently running",
                                         "Please launch a simulator first"), b.log)
          ELSE IF Truthy(args.direction)
          THEN Bind(gesture(args.direction, [duration |-> args.duration], Later(env)), LAMBDA g :
                 IF g.err # ""
                 THEN Reply(createErrorResponse(g.err, "Failed to swipe"), b.log \o g.log)
                 ELSE Reply(createTextResponse("Performed gesture", args.direction, Undef),
                            b.log \o g.log))
          ELSE IF ~hasCoordinates
          THEN Reply(createErrorResponse("Missing required arguments",
                       "Provide either 'direction' for preset gestures, or all coordinates"),
                     b.log)
          ELSE Bind(swipe([startX |-> args.startX, startY |-> args.startY,
                           endX |-> args.endX, endY |-> args.endY,
                           duration |-> args.duration], Later(env)), LAMBDA result :
                 IF result.err # ""
                 THEN Reply(createErrorResponse(result.err, "Failed to swipe"),
                            b.log \o result.log)
                 ELSE Reply(createTextResponse("Swiped", args.startX, args.endX),
                            b.log \o result.log)))

\* ScreenshotTool.execute(args)
ScreenshotToolExecute(env) ==
    Bind(isSimulatorBooted(env), LAMBDA b :
      IF ~Truthy(b.val)
      THEN Reply(createErrorResponse("No iOS Simulator is currently running",
                                     "Error: Please launch a simulator first"), b.log)
      ELSE Bind(takeScreenshot(env), LAMBDA buffer :
        IF buffer.err # ""
        THEN Reply(createErrorResponse(buffer.err, "Failed to take screenshot"),
                   b.log \o buffer.log)
        ELSE Reply(createImageResponse(buffer.val, <<"i","m","a","g","e","/","p","n","g">>,
                                       "Here is the current screen of the iOS Simulator."),
                   b.log \o buffer.log)))

\* args.text.length > 50 ? args.text.substring(0, 47) + "..." : args.text
DisplayText(text) ==
    IF Len(text) > 50 THEN SubSeq(text, 1, 47) \o <<".", ".", ".">> ELSE text

\* TypeTextTool.execute(args)
TypeTextToolExecute(args, env) ==
    Bind(isSimulatorBooted(env), LAMBDA b :
      IF ~Truthy(b.val)
      THEN Reply(createErrorResponse("No iOS Simulator is currently running",
                                     "Please launch a simulator first"), b.log)
      ELSE IF ~Truthy(args.text)
      THEN Reply(createErrorResponse("Missing required argument: text",
                                     "Please provide text to type"), b.log)
      ELSE Bind(typeText(args.text, Later(env)), LAMBDA result :
        IF result.err # ""
        THEN Reply(createErrorResponse(result.err, "Failed to type text"),
                   b.log \o result.log)
        ELSE Reply(createTextResponse("Typed", StrV(DisplayText(args.text.s)), Undef),
                   b.log \o result.log)))

\* the element extractElements makes of a node (value, enabled and frame are
\* copied as well)
ElementOf(node) ==
    [type |-> node.type, label |-> node.AXLabel, id |-> node.AXUniqueId]

\* mutant: only a label makes an element interactive
Interactive_labelOnly(element) == Truthy(element.label)

\* element.label || element.id
Interactive(element) == Truthy(element.label) \/ Truthy(element.id)

\* DescribeUITool.extractElements(nodes, elements), called with frames - 1
\* calls on the stack; ExtractLoop is its for loop over the rest of the nodes
RECURSIVE extractElements(_, _, _)
RECURSIVE ExtractLoop(_, _, _)
extractElements(nodes, elements, frames) ==
    IF frames > CallStackLimit THEN Throw("RangeError: Maximum call stack size exceeded")
    ELSE ExtractLoop(IF nodes.t = "array" THEN nodes.items ELSE <<nodes>>, elements, frames)

ExtractLoop(list, elements, frames) ==
    IF Len(list) = 0 THEN Ok(elements)
    ELSE LET node == Head(list)
         IN  IF node.t # "object" THEN ExtractLoop(Tail(list), elements, frames)
             ELSE LET element == ElementOf(node)
                      pushed == IF Interactive(element)
                                THEN Append(elements, element)
                                ELSE elements
                  IN  IF Truthy(node.children) /\ node.children.t = "array"
                      THEN Bind(extractElements(node.children, pushed, frames + 1),
                                LAMBDA r :
                             IF r.err # "" THEN r
                             ELSE ExtractLoop(Tail(list), r.val, frames))
                      ELSE ExtractLoop(Tail(list), pushed, frames)

\* el.type || "Unknown"
TypeOf(el) == IF Truthy(el.type) THEN el.type.s ELSE S_Unknown

\* the keys of grouped, in the order they were added
RECURSIVE GroupKeys(_)
GroupKeys(elements) ==
    IF Len(elements) = 0 THEN <<>>
    ELSE LET before == GroupKeys(SubSeq(elements, 1, Len(elements) - 1))
             type == TypeOf(elements[Len(elements)])
         IN  IF \E k \in 1..Len(before) : before[k] = type THEN before
             ELSE Append(before, type)

\* DescribeUITool.formatSummary(elements): the sentence for an empty list,
\* or the count and the elements grouped by type
formatSummary(elements) ==
    IF Len(elements) = 0
    THEN [what |-> "No accessible elements found on the current screen.",
          count |-> 0, groups |-> <<>>]
    ELSE LET keys == GroupKeys(elements)
         IN  [what |-> "Found accessible elements",
              count |-> Len(elements),
              groups |-> [k \in 1..Len(keys) |->
                            [type |-> keys[k],
                             items |-> SelectSeq(elements, LAMBDA el : TypeOf(el) = keys[k])]]]

S_full == <<"f", "u", "l", "l">>
S_summary == <<"s", "u", "m", "m", "a", "r", "y">>

\* DescribeUITool.execute(args)
DescribeUIToolExecute(args, env) ==
    LET format == IF Truthy(args.format) THEN args.format ELSE StrV(S_summary)
    IN  Bind(isSimulatorBooted(env), LAMBDA b :
          IF ~Truthy(b.val)
          THEN Reply(createErrorResponse("No iOS Simulator is currently running",
                                         "Please launch a simulator first"), b.log)
          ELSE Bind(describeUI(Later(env)), LAMBDA uiHierarchy :
            IF uiHierarchy.err # ""
            THEN Reply(createErrorResponse(uiHierarchy.err, "Failed to describe UI"),
                       b.log \o uiHierarchy.log)
            ELSE IF format = StrV(S_full)
            THEN Reply(createTextResponse("JSON.stringify", uiHierarchy.val, Undef),
                       b.log \o uiHierarchy.log)
            ELSE Bind(extractElements(uiHierarchy.val, <<>>, 1), LAMBDA elements :
              IF elements.err # ""
              THEN Reply(createErrorResponse(elements.err, "Failed to describe UI"),
                         b.log \o uiHierarchy.log)
              ELSE Bind(formatSummary(elements.val), LAMBDA output :
                     Reply(createTextResponse(output.what, Num(output.count), output.groups),
                           b.log \o uiHierarchy.log)))))

\* ListDevicesTool.execute(args)
\* ListDevicesTool.execute from the parsed enumeration on: parse, sort,
\* format, and the text response
DevicesResponse(args, devicesData) ==
    LET availableOnly == Truthy(args.available_only)
    IN  Bind(formatDevices(sortDevices(parseDevices(devicesData, availableOnly))),
             LAMBDA formattedOutput :
          createTextResponse("Found iOS Simulators",
                             Num(formattedOutput.count), formattedOutput.devices))

ListDevicesToolExecute(args, env) ==
    Bind(getDevices(env), LAMBDA devicesData :
      IF devicesData.err # ""
      THEN Reply(createErrorResponse(devicesData.err, "Failed to list devices"),
                 devicesData.log)
      ELSE Reply(DevicesResponse(args, devicesData.val), devicesData.log))

(***************************************************************************)
(* ToolRegistry (src/src/tools/ToolRegistry.js) and the server that owns   *)
(* it (server.js, in src/src/tools/BaseTool.js).  The Map this.tools is    *)
(* the sequence of its values in insertion order; a tool is an object with *)
(* the fields the BaseTool constructor sets and the name of its class.     *)
(***************************************************************************)
\* new <class>(simulatorService): super(name, description, inputSchema)
NewTool(class, name, description) ==
    [t |-> "object", class |-> class, name |-> name, description |-> description,
     inputSchema |-> "object"]

ScreenshotToolInstance ==
    NewTool("ScreenshotTool", "get_screenshot", "Take a screenshot of the currently running iOS Simulator")
ListDevicesToolInstance ==
    NewTool("ListDevicesTool", "list_devices", "List all available iOS Simulators")
TapToolInstance ==
    NewTool("TapTool", "tap", "Tap on a specific point on the iOS Simulator screen")
SwipeToolInstance ==
    NewTool("SwipeTool", "swipe", "Perform a swipe or scroll gesture on the iOS Simulator")
TypeTextToolInstance ==
    NewTool("TypeTextTool", "type_text", "Type text into the currently focused text field")
DescribeUIToolInstance ==
    NewTool("DescribeUITool", "describe_ui", "Get the accessibility hierarchy of the current screen")

\* the position of the key name in the Map, 0 when it is no key
KeyIndex(registry, name) ==
    IF \E k \in 1..Len(registry) : registry[k].name = name
    THEN CHOOSE k \in 1..Len(registry) : registry[k].name = name
    ELSE 0

\* mutant: a name that is registered keeps its first tool
register_keepFirst(registry, tool) ==
    IF KeyIndex(registry, tool.name) # 0 THEN registry ELSE Append(registry, tool)

\* ToolRegistry.register(tool): this.tools.set(tool.name, tool)
register(registry, tool) ==
    IF KeyIndex(registry, tool.name) # 0
    THEN [registry EXCEPT ![KeyIndex(registry, tool.name)] = tool]
    ELSE Append(registry, tool)

\* ToolRegistry.get(name): this.tools.get(name)
get(registry, name) ==
    IF KeyIndex(registry, name) # 0 THEN registry[KeyIndex(registry, name)] ELSE Undef

\* BaseTool.getDefinition()
getDefinition(tool) ==
    [name |-> tool.name, description |-> tool.description, inputSchema |-> tool.inputSchema]

\* ToolRegistry.getAllDefinitions()
getAllDefinitions(registry) == [k \in 1..Len(registry) |-> getDefinition(registry[k])]

\* ToolRegistry.has(name): this.tools.has(name)
has(registry, name) == KeyIndex(registry, name) # 0

\* new ToolRegistry()
NewRegistry == <<>>

\* server.js: the registry after the register calls of start-up
StartedRegistry == register(register(NewRegistry, ScreenshotToolInstance), ListDevicesToolInstance)

\* the object {}: every property read from it is undefined
EmptyArguments ==
    [x |-> Undef, y |-> Undef, id |-> Undef, label |-> Undef,
     direction |-> Undef, startX |-> Undef, startY |-> Undef, endX |-> Undef, endY |-> Undef,
     duration |-> Undef, text |-> Undef, format |-> Undef, available_only |-> Undef]

\* tool.execute(args), bound to the class of the tool
ToolExecute(tool, args, env) ==
    CASE tool.class = "ScreenshotTool"  -> ScreenshotToolExecute(env)
      [] tool.class = "ListDevicesTool" -> ListDevicesToolExecute(args, env)
      [] tool.class = "TapTool"         -> TapToolExecute(args, env)
      [] tool.class = "SwipeTool"       -> SwipeToolExecute(args, env)
      [] tool.class = "TypeTextTool"    -> TypeTextToolExecute(args, env)
      [] OTHER                          -> DescribeUIToolExecute(args, env)

\* server.js: the CallTool request handler
CallToolHandler(registry, request, env) ==
    Bind(get(registry, request.name), LAMBDA tool :
      IF ~Truthy(tool) THEN Fail("Tool not found", <<>>)
      ELSE Bind(ToolExecute(tool, IF Truthy(request.arguments) THEN request.arguments
                                  ELSE EmptyArguments, env), LAMBDA r :
             Done(r.resp, r.log)))

\* server.js: the ListTools request handler
ListToolsHandler(registry) == Done([tools |-> getAllDefinitions(registry)], <<>>)

(***************************************************************************)
(* The inputs of the model.                                                *)
(***************************************************************************)
UdidA == <<"A","1","B","2","C","3","D","4","-","E","5","F","6","-","4","A","7","B","-","8","C","9","D","-","0","E","1","F","2","A","3","B","4","C","5","D">>
UdidB == <<"1","2","3","4","5","6","7","8","-","9","0","A","B","-","C","D","E","F","-","1","2","3","4","-","5","6","7","8","9","0","A","B","C","D","E","F">>

DeviceUdids == {UdidA, UdidB}

\* the lists of booted devices: no device twice, at most MaxDevices of them
SimStates ==
    {q \in UNION {[1..n -> DeviceUdids] : n \in 0..MaxDevices} :
        \A j, k \in 1..Len(q) : j # k => q[j] # q[k]}

XcrunModes == {"ok", "fail", "enoent", "flood"}

\* the booted devices once the probe of a tool is over: none, or one device
AfterProbe == {<<>>} \cup {<<u>> : u \in DeviceUdids}

S_ok == <<"o", "k", "\n">>
S_err == <<"e", "r", "r">>

\* how the command of a call (axe, or an xcrun sub-command) may end
ExtOutcomes ==
    {Answer(0, <<>>, <<>>), Answer(0, S_ok, <<>>), Answer(0, <<"[", "]">>, <<>>),
     Answer(0, <<"\n">>, <<>>),
     Answer(0, S_tree, <<>>),
     Answer(1, <<>>, S_err), Answer(1, <<>>, <<>>), Killed, LaunchFailure,
     Flood(MAX_BUFFER)} \cup {Flood(MAX_BUFFER + d) : d \in 1..MaxOver}

Env(ext) == [sim |-> sim, xcrunMode |-> xcrunMode, ext |-> ext, after |-> sim]

\* the same, with the devices booted once the probe of a tool is over
EnvThen(ext, after) == [sim |-> sim, xcrunMode |-> xcrunMode, ext |-> ext, after |-> after]

Over == 1..MaxOver

\* the punctuation of a US keyboard, then a space, a line feed and some
\* letters and digits
KeyboardSeq ==
    <<"!","\"","#","$","%","&","'","(",")","*","+",",","-",".","/",":",";","<","=",">","?","@","[","\\","]","^","_",Backtick,"{","|","}","~">> \o
    <<" ", "\n", "a", "Z", "0", "f", "G">>

Keyboard == SeqRange(KeyboardSeq)

NotStrings == {Undef, Null, Num(5), BoolV(TRUE)}

\* short texts: every keyboard character alone and between letters
ShortTexts ==
    {StrV(<<>>)} \cup
    {StrV(pre \o <<c>> \o post) : c \in Keyboard, pre \in {<<>>, <<"a">>}, post \in {<<>>, <<"b">>}}

\* texts as long as a length limit, up to MaxOver shorter and longer, clean
\* and with one character replaced
LongTexts(limit) ==
    {StrV(Rep("a", limit + d)) : d \in (0 - MaxOver)..MaxOver} \cup
    {StrV(Rep("a", limit + d - 1) \o <<c>>) : d \in (0 - MaxOver)..MaxOver, c \in {"|", " "}}

TextInputs == NotStrings \cup ShortTexts \cup LongTexts(MAX_LABEL_LENGTH) \cup LongTexts(MAX_TEXT_LENGTH)

IdInputs == NotStrings \cup ShortTexts \cup LongTexts(MAX_ID_LENGTH)

BoundSamples == {DEFAULT_COORD_MIN, COORD_MIN, MAX_DURATION, COORD_MAX, DEFAULT_COORD_MAX}

\* numbers at and around a limit
Around(m) ==
    {Num(m + d) : d \in (0 - MaxOver)..MaxOver} \cup {NumHalf(m - 1), NumHalf(m)}

NotFinite == {Undef, NaNV, InfV, NegInfV, StrV(<<"a","b","c">>), StrV(<<"1","2","a">>)}

Coercible ==
    {Null, BoolV(TRUE), BoolV(FALSE), StrV(<<>>), StrV(<<"1","2">>), StrV(<<"-","3">>),
     StrV(<<"7",".","5">>), StrV(<<"5","0","0","1">>), StrV(<<"6","1">>)}

NumberInputs(min, max) == Around(min) \cup Around(max) \cup NotFinite \cup Coercible

\* a string with its k-th character replaced by c
Replace(s, k, c) == [s EXCEPT ![k] = c]

UdidChars == {"a", "f", "F", "0", "9", "g", "G", "-", " ", "z"}

\* well-formed identifiers with one character replaced, shortened,
\* lengthened, in lower case, and values that are no strings
UdidInputs ==
    NotStrings \cup
    {StrV(Replace(UdidA, k, c)) : k \in 1..UDID_LENGTH, c \in UdidChars} \cup
    {StrV(UdidA), StrV(UdidB), StrV(<<>>),
     StrV(SubSeq(UdidA, 1, UDID_LENGTH - 1)), StrV(UdidA \o <<"0">>),
     StrV(<<"0">> \o UdidA), StrV(UdidA \o <<"\n">>),
     StrV(Rep("a", 8) \o <<"-">> \o Rep("b", 4) \o <<"-">> \o Rep("c", 4) \o <<"-">>
          \o Rep("d", 4) \o <<"-">> \o Rep("e", 12))}

(***************************************************************************)
(* The state machine.  call is the last call made, [layer, op, args]; res  *)
(* is what it returned or threw; log is the sequence of processes it       *)
(* launched.                                                               *)
(***************************************************************************)
NoCall == [layer |-> "none", op |-> "", args |-> <<>>]

Init ==
    /\ sim = <<>>
    /\ xcrunMode = "ok"
    /\ call = NoCall
    /\ res = Ok(Undef)
    /\ log = <<>>
    /\ tools = StartedRegistry

\* a pure function applied: nothing is launched, the environment stays
Applied(op, args, result) ==
    /\ call = NoCall
    /\ call' = [layer |-> "validator", op |-> op, args |-> args]
    /\ res' = result
    /\ log' = <<>>
    /\ UNCHANGED <<sim, xcrunMode, tools>>

ValidateAccessibilityId ==
    \E v \in IdInputs : Applied("validateAccessibilityId", [value |-> v], validateAccessibilityId(v))

ValidateAccessibilityLabel ==
    \E v \in TextInputs :
        Applied("validateAccessibilityLabel", [value |-> v], validateAccessibilityLabel(v))

ValidateTypeText ==
    \E v \in TextInputs : Applied("validateTypeText", [value |-> v], validateTypeText(v))

ValidateCoordinate ==
    \E min \in BoundSamples, max \in BoundSamples :
        /\ min <= max
        /\ \E v \in NumberInputs(min, max) :
              Applied("validateCoordinate", [value |-> v, min |-> min, max |-> max],
                      validateCoordinate(v, min, max))

ValidateDuration ==
    \E v \in NumberInputs(0, MAX_DURATION) :
        Applied("validateDuration", [value |-> v], validateDuration(v))

ValidateUDID ==
    \E v \in UdidInputs : Applied("validateUDID", [value |-> v], validateUDID(v))

\* the caller takes the result: the next call starts from here
Respond ==
    /\ call # NoCall
    /\ call' = NoCall
    /\ res' = Ok(Undef)
    /\ log' = <<>>
    /\ UNCHANGED <<sim, xcrunMode, tools>>

NextV ==
    \/ ValidateAccessibilityId
    \/ ValidateAccessibilityLabel
    \/ ValidateTypeText
    \/ ValidateCoordinate
    \/ ValidateDuration
    \/ ValidateUDID
    \/ Respond

\* the validators applied to bounded inputs
SpecV == Init /\ [][NextV]_vars

\* ------------------------------------------------------------------
\* Accessibility hierarchies given to extractElements

\* a node without label and identifier, a labelled one, and one that has an
\* empty label and an identifier
NodeKinds ==
    { <<StrV(S_Group), Undef, Undef>>,
      <<StrV(S_Button), StrV(<<"A">>), Undef>>,
      <<Undef, StrV(<<>>), StrV(<<"i">>)>> }

\* the hierarchies of n nodes, and the sequences of hierarchies of m nodes in all
RECURSIVE TreesOfSize(_)
RECURSIVE ForestsOfSize(_)
TreesOfSize(n) ==
    { Node(k[1], k[2], k[3], Arr(f)) : k \in NodeKinds, f \in ForestsOfSize(n - 1) }

ForestsOfSize(m) ==
    IF m = 0 THEN { <<>> }
    ELSE UNION { { <<tr>> \o f : tr \in TreesOfSize(j), f \in ForestsOfSize(m - j) } : j \in 1..m }

\* what describeUI can hand over: one root object, an array of roots, an array
\* holding a null, a leaf without a children field
Hierarchies ==
    UNION { TreesOfSize(n) : n \in 1..MaxNodes }
      \cup { Arr(f) : f \in UNION { ForestsOfSize(m) : m \in 0..(MaxNodes - 2) } }
      \cup { Arr(<<Null, Node(Undef, StrV(<<"A">>), Undef, Undef)>>), Null, StrV(<<"A">>) }

\* a first call of extractElements(nodes): elements is a fresh empty array
ExtractElements ==
    /\ call = NoCall
    /\ \E nodes \in Hierarchies :
          \E r \in { extractElements(nodes, <<>>, 1) } :
            /\ call' = [layer |-> "projection", op |-> "extractElements",
                        args |-> [nodes |-> nodes, n |-> 1, first |-> r]]
            /\ res' = r
    /\ log' = <<>>
    /\ UNCHANGED <<sim, xcrunMode, tools>>

\* a second call on the same hierarchy: the default parameter is evaluated anew
ExtractElementsAgain ==
    /\ call.op = "extractElements"
    /\ call.args.n = 1
    /\ call' = [call EXCEPT !.args.n = 2]
    /\ res' = extractElements(call.args.nodes, <<>>, 1)
    /\ log' = <<>>
    /\ UNCHANGED <<sim, xcrunMode, tools>>

NextE ==
    \/ ExtractElements
    \/ ExtractElementsAgain
    \/ Respond

\* extractElements applied to bounded hierarchies
SpecE == Init /\ [][NextE]_vars

\* between two calls a simulator boots or shuts down, or xcrun starts or
\* stops working
DeviceChange ==
    /\ call = NoCall
    /\ \E s \in SimStates, m \in XcrunModes :
             /\ <<s, m>> # <<sim, xcrunMode>>
             /\ sim' = s
             /\ xcrunMode' = m
       /\ UNCHANGED <<call, res, log, tools>>

\* a call of the gateway or of the facade ran to its end
Called(layer, op, args, r) ==
    /\ call' = [layer |-> layer, op |-> op, args |-> args]
    /\ res' = [err |-> r.err, val |-> r.val]
    /\ log' = r.log
    /\ UNCHANGED <<sim, xcrunMode, tools>>

\* a tool's execute ran to its end
Executed(op, args, r) ==
    /\ call' = [layer |-> "tool", op |-> op, args |-> args]
    /\ res' = r.resp
    /\ log' = r.log
    /\ UNCHANGED <<sim, xcrunMode, tools>>

\* a tool's execute ran to its end while the booted devices became after
ExecutedThen(op, args, r, after) ==
    /\ call' = [layer |-> "tool", op |-> op, args |-> args]
    /\ res' = r.resp
    /\ log' = r.log
    /\ sim' = after
    /\ UNCHANGED <<xcrunMode, tools>>

S_ls == <<"l", "s">>
S_sh == <<"s", "h">>
S_AXE == <<"A", "X", "E">>

\* logical names a caller of the gateway may pass
CommandNames ==
    {S_axe, S_xcrun, S_constructor, S_toString, S_proto, S_hasOwnProperty, S_valueOf,
     S_ls, S_sh, S_AXE, <<>>, XCRUN_PATH, S_axe \o <<" ">>}

\* options a caller of the gateway may pass: none, those of the facade, and
\* a request for a shell
CallOptions ==
    <<[k \in {} |-> ""], Utf8, [encoding |-> "null", maxBuffer |-> MAX_BUFFER],
      [shell |-> TRUE]>>

ArgVectors == {<<>>, ListBootedArgs, <<<<"-", "c">>, <<"a", ";", "b">>>>}

GatewayExecute ==
    /\ call = NoCall
    /\ \E name \in CommandNames, args \in ArgVectors, o \in 1..Len(CallOptions),
          ext \in ExtOutcomes :
           \E r \in {execute(<<name>> \o args, CallOptions[o], Env(ext))} :
               Called("gateway", "execute",
                      [name |-> name, args |-> args, options |-> CallOptions[o]], r)

GatewayExecuteSafeCommand ==
    /\ call = NoCall
    /\ \E name \in CommandNames, args \in ArgVectors, ext \in ExtOutcomes :
           \E r \in {executeSafeCommand(name, args, Env(ext))} :
               Called("gateway", "executeSafeCommand", [name |-> name, args |-> args], r)

S_btn == <<"b", "t", "n">>
S_OK == <<"O", "K">>

TapXs == {Undef, Num(0), NumHalf(7), StrV(<<"1", "2">>), StrV(<<"a">>)}
            \cup {Num(COORD_MAX + d) : d \in Over}
TapYs == {Undef, Null, Num(COORD_MAX)} \cup {Num(COORD_MIN - d) : d \in Over}
TapIds == {Undef, StrV(<<>>), StrV(S_btn), StrV(<<"a", ";", "b">>)}
TapLabels == {Undef, StrV(S_OK), StrV(<<"a", "$", "b">>)}

TapBags == [x : TapXs, y : TapYs, id : TapIds, label : TapLabels]

FacadeTap ==
    /\ call = NoCall
    /\ \E options \in TapBags, ext \in ExtOutcomes :
           \E r \in {tap(options, Env(ext))} : Called("facade", "tap", options, r)

Durations ==
    {Undef, Null, Num(0), NumHalf(0), StrV(<<"a", "b", "c">>), Num(MAX_DURATION)}
        \cup {Num(MAX_DURATION + d) : d \in Over}

SwipeBags ==
    [startX : {Undef, Num(10)} \cup {Num(COORD_MAX + d) : d \in Over},
     startY : {Undef, Num(0), Null},
     endX : {Undef, NumHalf(2), StrV(<<"a", "b", "c">>)},
     endY : {Undef, Num(COORD_MAX)} \cup {Num(COORD_MIN - d) : d \in Over},
     duration : Durations]

FacadeSwipe ==
    /\ call = NoCall
    /\ \E options \in SwipeBags, ext \in ExtOutcomes :
           \E r \in {swipe(options, Env(ext))} : Called("facade", "swipe", options, r)

S_diagonal == <<"d", "i", "a", "g", "o", "n", "a", "l">>

Presets ==
    {StrV(validPresets[k]) : k \in 1..Len(validPresets)} \cup
    {Undef, Num(5), StrV(<<>>), StrV(S_diagonal), StrV(ToUpperCase(validPresets[1])),
     StrV(validPresets[1] \o <<";">>)}

FacadeGesture ==
    /\ call = NoCall
    /\ \E preset \in Presets, duration \in Durations, ext \in ExtOutcomes :
           \E r \in {gesture(preset, [duration |-> duration], Env(ext))} :
               Called("facade", "gesture", [preset |-> preset, duration |-> duration], r)

TypeTexts ==
    {Undef, Num(5), StrV(<<>>), StrV(S_OK), StrV(<<"a", " ", "b">>), StrV(<<"a", ";", "b">>),
     StrV(<<"$", "(", "x", ")">>), StrV(<<"H", "i", "!">>),
     StrV(<<"H", "e", "l", "l", "o", " ", "W", "o", "r", "l", "d", "!">>)}

FacadeTypeText ==
    /\ call = NoCall
    /\ \E text \in TypeTexts, ext \in ExtOutcomes :
           \E r \in {typeText(text, Env(ext))} : Called("facade", "typeText", [text |-> text], r)

FacadeDescribeUI ==
    /\ call = NoCall
    /\ \E ext \in ExtOutcomes :
           \E r \in {describeUI(Env(ext))} : Called("facade", "describeUI", <<>>, r)

TapTool ==
    /\ call = NoCall
    /\ \E args \in TapBags, ext \in ExtOutcomes, after \in AfterProbe :
           \E r \in {TapToolExecute(args, EnvThen(ext, after))} :
               ExecutedThen("tap", args, r, after)

SwipeToolBags ==
    [direction : {Undef, StrV(<<>>), StrV(validPresets[1]), StrV(validPresets[8]),
                  StrV(S_diagonal)},
     startX : {Undef, Num(10)},
     startY : {Undef, Num(0)},
     endX : {Undef, NumHalf(2)},
     endY : {Undef, Num(COORD_MAX)} \cup {Num(COORD_MAX + d) : d \in Over},
     duration : {Undef, Num(1)} \cup {Num(MAX_DURATION + d) : d \in Over}]

SwipeTool ==
    /\ call = NoCall
    /\ \E args \in SwipeToolBags, ext \in ExtOutcomes, after \in AfterProbe :
           \E r \in {SwipeToolExecute(args, EnvThen(ext, after))} :
               ExecutedThen("swipe", args, r, after)

\* how often a call is repeated in a row
MaxRepeat == 2

\* isSimulatorBooted called directly
FacadeIsSimulatorBooted ==
    /\ call = NoCall
    /\ \E ext \in ExtOutcomes :
           \E r \in {isSimulatorBooted(Env(ext))} :
               Called("facade", "isSimulatorBooted", <<>>, r)

\* getBootedUDID called directly, and called again right after a call of it:
\* call.args.n counts the calls in a row
FacadeGetBootedUDID ==
    /\ \/ call = NoCall
       \/ call.op = "getBootedUDID" /\ call.args.n < MaxRepeat
    /\ \E ext \in ExtOutcomes :
           \E r \in {getBootedUDID(Env(ext))} :
               Called("facade", "getBootedUDID",
                      [n |-> IF call = NoCall THEN 1 ELSE call.args.n + 1], r)

FacadeTakeScreenshot ==
    /\ call = NoCall
    /\ \E ext \in ExtOutcomes :
           \E r \in {takeScreenshot(Env(ext))} : Called("facade", "takeScreenshot", <<>>, r)

FacadeGetDevices ==
    /\ call = NoCall
    /\ \E ext \in ExtOutcomes :
           \E r \in {getDevices(Env(ext))} : Called("facade", "getDevices", <<>>, r)

ScreenshotTool ==
    /\ call = NoCall
    /\ \E ext \in ExtOutcomes :
           \E r \in {ScreenshotToolExecute(Env(ext))} : Executed("get_screenshot", <<>>, r)

TypeTextTool ==
    /\ call = NoCall
    /\ \E text \in TypeTexts, ext \in ExtOutcomes, after \in AfterProbe :
           \E r \in {TypeTextToolExecute([text |-> text], EnvThen(ext, after))} :
               ExecutedThen("type_text", [text |-> text], r, after)

Formats == {Undef, StrV(<<>>), StrV(S_summary), StrV(S_full)}

DescribeUITool ==
    /\ call = NoCall
    /\ \E format \in Formats, ext \in ExtOutcomes, after \in AfterProbe :
           \E r \in {DescribeUIToolExecute([format |-> format], EnvThen(ext, after))} :
               ExecutedThen("describe_ui", [format |-> format], r, after)

ListDevicesTool ==
    /\ call = NoCall
    /\ \E flag \in {Undef, BoolV(TRUE), BoolV(FALSE)}, ext \in ExtOutcomes :
           \E r \in {ListDevicesToolExecute([available_only |-> flag], Env(ext))} :
               Executed("list_devices", [available_only |-> flag], r)

\* the names a call request carries: the documented tools and an unknown one
ToolNames ==
    {"get_screenshot", "list_devices", "tap", "swipe", "type_text", "describe_ui", "reboot"}

\* request.params.arguments: absent, or an argument bag
RequestArguments ==
    {Undef,
     [EmptyArguments EXCEPT !.x = Num(1), !.y = Num(2)],
     [EmptyArguments EXCEPT !.available_only = BoolV(TRUE)]}

\* the server handles a CallTool request
CallTool ==
    /\ call = NoCall
    /\ \E name \in ToolNames, arguments \in RequestArguments, ext \in ExtOutcomes :
          \E r \in {CallToolHandler(tools, [name |-> name, arguments |-> arguments], Env(ext))} :
            /\ call' = [layer |-> "server", op |-> "CallTool",
                        args |-> [name |-> name, arguments |-> arguments, ext |-> ext]]
            /\ res' = [err |-> r.err, val |-> r.val]
            /\ log' = r.log
    /\ UNCHANGED <<sim, xcrunMode, tools>>

\* the server handles a ListTools request
ListTools ==
    /\ call = NoCall
    /\ \E r \in {ListToolsHandler(tools)} :
            /\ call' = [layer |-> "server", op |-> "ListTools", args |-> <<>>]
            /\ res' = [err |-> r.err, val |-> r.val]
            /\ log' = r.log
    /\ UNCHANGED <<sim, xcrunMode, tools>>

Next ==
    \/ DeviceChange
    \/ GatewayExecute
    \/ GatewayExecuteSafeCommand
    \/ FacadeTap
    \/ FacadeSwipe
    \/ FacadeGesture
    \/ FacadeTypeText
    \/ FacadeDescribeUI
    \/ TapTool
    \/ SwipeTool
    \/ FacadeIsSimulatorBooted
    \/ FacadeGetBootedUDID
    \/ FacadeTakeScreenshot
    \/ FacadeGetDevices
    \/ ScreenshotTool
    \/ TypeTextTool
    \/ DescribeUITool
    \/ ListDevicesTool
    \/ CallTool
    \/ ListTools
    \/ Respond

Spec == Init /\ [][Next]_vars

\* ------------------------------------------------------------------
\* Enumerations of devices given to the DeviceFormatter

S_ios17 == <<"c","o","m",".","a","p","p","l","e",".","C","o","r","e","S","i","m","u","l","a","t","o","r",".","S","i","m","R","u","n","t","i","m","e",".","i","O","S","-","1","7","-","0">>
S_tvos == <<"c","o","m",".","a","p","p","l","e",".","C","o","r","e","S","i","m","u","l","a","t","o","r",".","S","i","m","R","u","n","t","i","m","e",".","t","v","O","S","-","1","7","-","0">>
S_Shutdown == <<"S","h","u","t","d","o","w","n">>
S_iPhone == <<"i","P","h","o","n","e">>

\* what may differ between two listed devices
DeviceTraits ==
    [name : {<<"a">>, <<"b">>}, state : {S_Booted, S_Shutdown}, isAvailable : {TRUE, FALSE}]

\* the k-th listed device: its udid is its own
ListedDevice(k, traits) ==
    [name |-> StrV(traits.name),
     udid |-> StrV([UdidA EXCEPT ![UDID_LENGTH] = DigitSeq[k]]),
     state |-> StrV(traits.state),
     isAvailable |-> BoolV(traits.isAvailable),
     deviceTypeIdentifier |-> StrV(S_iPhone)]

\* n devices, the first j of them under the iOS 17.0 runtime key and the
\* others under a key of another platform
Enumeration(traits, j) ==
    [t |-> "object",
     devices |-> <<[runtime |-> S_ios17,
                    list |-> [k \in 1..j |-> ListedDevice(k, traits[k])]],
                   [runtime |-> S_tvos,
                    list |-> [k \in 1..(Len(traits) - j) |-> ListedDevice(j + k, traits[j + k])]]>>]

\* the parsed outputs: also an object without devices, and a device that
\* has no isAvailable property
Enumerations ==
    UNION {{Enumeration(traits, j) : traits \in [1..n -> DeviceTraits], j \in 0..n} :
              n \in 0..MaxListed}
      \cup {[t |-> "object"],
            [t |-> "object",
             devices |-> <<[runtime |-> S_ios17,
                            list |-> <<[ListedDevice(1, [name |-> <<"a">>, state |-> S_Booted,
                                                         isAvailable |-> TRUE])
                                           EXCEPT !.isAvailable = Undef]>>]>>]}

\* the digits and letters runtime keys are made of, around the version
KeyHeads == {<<>>, <<"x", ".">>, <<"i", "O", "S", "-", "a", "-">>, <<"w", "a", "t", "c", "h">>}
KeyNumbers == {<<"0">>, <<"9">>, <<"1", "7">>}
KeyTails == {<<>>, <<"-", "1">>, <<".", "b">>}

\* keys that hold iOS-<major>-<minor>, with the parts they are made of, and
\* keys that hold no such version
RuntimeKeys ==
    {[key |-> head \o <<"i", "O", "S", "-">> \o major \o <<"-">> \o minor \o tail,
      ios |-> TRUE, major |-> major, minor |-> minor] :
        head \in KeyHeads, major \in KeyNumbers, minor \in KeyNumbers, tail \in KeyTails}
      \cup
    {[key |-> key, ios |-> FALSE, major |-> <<>>, minor |-> <<>>] :
        key \in {S_tvos, <<>>, <<"i", "O", "S">>, <<"i", "O", "S", "-", "1", "7">>,
                 <<"i", "O", "S", "-", "1", "7", "-">>, <<"I", "O", "S", "-", "1", "-", "2">>,
                 <<"i", "O", "S", " ", "1", "7", ".", "0">>, <<"i", "O", "S", "-", "-", "1">>}}

ExtractIOSVersion ==
    \E k \in RuntimeKeys :
        Applied("extractIOSVersion", k, StrV(extractIOSVersion(k.key)))

ParseDevices ==
    \E data \in Enumerations, flag \in BOOLEAN :
        Applied("parseDevices", [devicesData |-> data, availableOnly |-> flag],
                parseDevices(data, flag))

\* ListDevicesTool.execute on the enumeration getDevices returned
ListDevicesOf ==
    \E data \in Enumerations, flag \in {Undef, BoolV(TRUE), BoolV(FALSE)} :
        Applied("list_devices", [devicesData |-> data, available_only |-> flag],
                DevicesResponse([available_only |-> flag], data))

NextD ==
    \/ ExtractIOSVersion
    \/ ParseDevices
    \/ ListDevicesOf
    \/ Respond

\* the DeviceFormatter applied to bounded enumerations
SpecD == Init /\ [][NextD]_vars

\* ------------------------------------------------------------------
\* A ToolRegistry of its own, from its construction on

\* tools to register: two of them are second objects under a name in use
RegistryTools ==
    {ScreenshotToolInstance, ListDevicesToolInstance, TapToolInstance,
     NewTool("ScreenshotTool", "get_screenshot", "a second screenshot tool"),
     NewTool("TapTool", "tap", "a second tap tool")}

RegistryNames == {"get_screenshot", "list_devices", "tap", "swipe"}

InitR ==
    /\ sim = <<>>
    /\ xcrunMode = "ok"
    /\ call = NoCall
    /\ res = Ok(Undef)
    /\ log = <<>>
    /\ tools = NewRegistry

\* a method of the registry that reads it
Looked(op, args, result) ==
    /\ call = NoCall
    /\ call' = [layer |-> "registry", op |-> op, args |-> args]
    /\ res' = Ok(result)
    /\ log' = <<>>
    /\ UNCHANGED <<sim, xcrunMode, tools>>

RegistryRegister ==
    /\ call = NoCall
    /\ \E tool \in RegistryTools :
          /\ tools' = register(tools, tool)
          /\ call' = [layer |-> "registry", op |-> "register", args |-> [tool |-> tool]]
    /\ res' = Ok(Undef)
    /\ log' = <<>>
    /\ UNCHANGED <<sim, xcrunMode>>

RegistryGet == \E name \in RegistryNames : Looked("get", [name |-> name], get(tools, name))

RegistryHas == \E name \in RegistryNames : Looked("has", [name |-> name], BoolV(has(tools, name)))

RegistryGetAllDefinitions == Looked("getAllDefinitions", <<>>, getAllDefinitions(tools))

NextR ==
    \/ RegistryRegister
    \/ RegistryGet
    \/ RegistryHas
    \/ RegistryGetAllDefinitions
    \/ Respond

\* the registry under register, get, has and getAllDefinitions
SpecR == InitR /\ [][NextR]_vars

(***************************************************************************)
(* Properties of the validators, checked under SpecV.                      *)
(***************************************************************************)
\* the denylist as the specification of the validators states it
DeniedChars ==
    {";", "&", "|", Backtick, "$", "\\", "<", ">", "{", "}", "[", "]", "(", ")",
     "#", "*", "?", "~", "!"}

ContainsDenied(s) == \E k \in 1..Len(s) : s[k] \in DeniedChars

TextOps == {"validateTypeText", "validateAccessibilityLabel"}

LengthBound(op) == IF op = "validateTypeText" THEN 10000 ELSE 512

\* C4: validateTypeText and validateAccessibilityLabel fail for every string
\* that contains a character of the denylist, and return the input unchanged
\* for every non-empty string without one that is within the length bound
\* (10000 for free text, 512 for labels).
C4_DenylistDecides ==
    (call.layer = "validator" /\ call.op \in TextOps /\ IsString(call.args.value)) =>
        LET s == call.args.value.s
        IN  /\ ContainsDenied(s) => res.err # ""
            /\ (Len(s) > 0 /\ ~ContainsDenied(s) /\ Len(s) <= LengthBound(call.op))
                  => res = Ok(call.args.value)

\* a label of exactly 512 harmless characters is returned unchanged
C4_Witness ==
    /\ call.layer = "validator" /\ call.op = "validateAccessibilityLabel"
    /\ IsString(call.args.value)
    /\ Len(call.args.value.s) = 512
    /\ ~ContainsDenied(call.args.value.s)
    /\ res = Ok(call.args.value)

\* twice a number i + h/2, to compare it with integers
Twice(n) == 2 * n.i + n.h

\* C5: for an input that coerces to a number and bounds min <= max,
\* validateCoordinate fails when the number is outside [min, max] and returns
\* exactly the coerced number when it is inside, both endpoints included.
C5_CoordinateRange ==
    (call.layer = "validator" /\ call.op = "validateCoordinate") =>
        LET n == ToNumber(call.args.value)
            inside == /\ n.t = "number"
                      /\ 2 * call.args.min <= Twice(n)
                      /\ Twice(n) <= 2 * call.args.max
        IN  n.t # "nan" =>
               /\ ~inside => res.err # ""
               /\ inside => res = Ok(n)

\* the upper endpoint 5000 of a range is returned as it is
C5_Witness ==
    /\ call.layer = "validator" /\ call.op = "validateCoordinate"
    /\ call.args.value = Num(5000) /\ call.args.max = 5000
    /\ res = Ok(Num(5000))

HexDigitsAnyCase ==
    {"0", "1", "2", "3", "4", "5", "6", "7", "8", "9",
     "a", "b", "c", "d", "e", "f", "A", "B", "C", "D", "E", "F"}

\* the 8-4-4-4-12 grouped hexadecimal shape
GroupedHex(s) ==
    /\ Len(s) = 36
    /\ \A k \in 1..36 :
          IF k \in {9, 14, 19, 24} THEN s[k] = "-" ELSE s[k] \in HexDigitsAnyCase

\* C6: validateUDID succeeds exactly for the strings of the 8-4-4-4-12 grouped
\* hexadecimal shape in either letter case, returns the input in upper case,
\* and returns its own result unchanged.
C6_UdidNormalised ==
    (call.layer = "validator" /\ call.op = "validateUDID") =>
        LET v == call.args.value
        IN  /\ res.err = "" <=> (IsString(v) /\ GroupedHex(v.s))
            /\ res.err = "" =>
                  /\ res.val = StrV(ToUpperCase(v.s))
                  /\ \A k \in 1..Len(res.val.s) : res.val.s[k] \notin Lower
                  /\ validateUDID(res.val) = Ok(res.val)

\* an identifier with lower-case digits is accepted and comes back changed
C6_Witness ==
    /\ call.layer = "validator" /\ call.op = "validateUDID"
    /\ res.err = ""
    /\ \E k \in 1..Len(call.args.value.s) : call.args.value.s[k] \in Lower
    /\ res.val # call.args.value

(***************************************************************************)
(* Properties of the gateway, the facade and the tools, checked under Spec. *)
(***************************************************************************)
\* the positions in the log of the launches of axe and of xcrun
AxeLaunches == {k \in 1..Len(log) : log[k].file = AXE_PATH}
XcrunLaunches == {k \in 1..Len(log) : log[k].file = XCRUN_PATH}

\* the call was refused: a thrown error, or an error response of a tool
Refused == IF call.layer = "tool" THEN res.isError ELSE res.err # ""

\* the enumeration works and lists a booted device
DeviceBooted == xcrunMode = "ok" /\ Len(sim) > 0

\* the first launch of the call, the probe of a tool, listed a booted device
ProbeReportedBooted ==
    /\ Len(log) >= 1
    /\ log[1].file = XCRUN_PATH /\ log[1].args = ListBootedArgs
    /\ ~(log[1].answer.error \/ log[1].answer.killed \/ log[1].answer.status # 0)
    /\ Includes(log[1].answer.stdout, S_Booted)

\* C1: for every logical name outside the allow-list {axe, xcrun}, also
\* 'constructor', 'toString' and '__proto__', execute and executeSafeCommand
\* fail with 'Command not allowed' and no process is spawned.
C1_NotAllowedRefused ==
    (call.layer = "gateway" /\ call.args.name \notin {S_axe, S_xcrun}) =>
        /\ res.err = "Command not allowed"
        /\ log = <<>>

\* the two fixed absolute paths, /opt/homebrew/bin/axe and /usr/bin/xcrun
FixedPaths ==
    {<<"/","o","p","t","/","h","o","m","e","b","r","e","w","/","b","i","n","/","a","x","e">>,
     <<"/","u","s","r","/","b","i","n","/","x","c","r","u","n">>}

\* C2: every process the gateway starts is launched at one of the two fixed
\* absolute paths, with the arguments handed over as the vector they were
\* given as; those started for a call of the facade or of a tool run with
\* shell interpretation disabled.
C2_FixedPathsNoShell ==
    \A k \in 1..Len(log) :
        /\ log[k].file \in FixedPaths
        /\ call.layer = "gateway" => log[k].args = call.args.args
        /\ call.layer \in {"facade", "tool"} => log[k].shell = FALSE

\* a tap of the facade launched xcrun and then axe
C2_Witness ==
    /\ call.layer = "facade" /\ call.op = "tap"
    /\ Len(log) = 2
    /\ log[1].file # log[2].file

\* the number n is within [lo, hi]
Within(n, lo, hi) == n.t = "number" /\ 2 * lo <= Twice(n) /\ Twice(n) <= 2 * hi

\* the text t is the decimal rendering of the coordinate value v, and v was
\* accepted by validateCoordinate
CoordinateArg(t, v) ==
    /\ validateCoordinate(v, 0, 5000).err = ""
    /\ Within(ToNumber(v), 0, 5000)
    /\ t = NumToString(ToNumber(v))

\* the tail d of a vector is empty for an undefined duration, or the flag and
\* the rendering of a duration validateDuration accepted
DurationTail(d, v) ==
    IF v = Undef THEN d = <<>>
    ELSE /\ validateDuration(v).err = ""
         /\ Within(ToNumber(v), 0, 60)
         /\ d = <<S_duration, NumToString(ToNumber(v))>>

\* what the argument vector a of an axe launch must be for the facade call
Validated(a) ==
    CASE call.op = "tap" ->
            /\ Len(a) >= 5
            /\ a[4] \in {S_x, S_id, S_label}
            /\ a[4] = S_x =>
                  /\ Len(a) = 7 /\ a[6] = S_y
                  /\ CoordinateArg(a[5], call.args.x)
                  /\ CoordinateArg(a[7], call.args.y)
            /\ a[4] = S_id =>
                  /\ Len(a) = 5
                  /\ validateAccessibilityId(call.args.id) = Ok(call.args.id)
                  /\ a[5] = call.args.id.s
                  /\ ~ContainsDenied(a[5])
            /\ a[4] = S_label =>
                  /\ Len(a) = 5
                  /\ validateAccessibilityLabel(call.args.label) = Ok(call.args.label)
                  /\ a[5] = call.args.label.s
                  /\ ~ContainsDenied(a[5])
      [] call.op = "swipe" ->
            /\ Len(a) >= 11
            /\ CoordinateArg(a[3], call.args.startX)
            /\ CoordinateArg(a[5], call.args.startY)
            /\ CoordinateArg(a[7], call.args.endX)
            /\ CoordinateArg(a[9], call.args.endY)
            /\ DurationTail(SubSeq(a, 12, Len(a)), call.args.duration)
      [] call.op = "gesture" ->
            /\ Len(a) >= 4
            /\ IsString(call.args.preset)
            /\ a[2] = call.args.preset.s
            /\ \E k \in 1..Len(validPresets) : validPresets[k] = a[2]
            /\ DurationTail(SubSeq(a, 5, Len(a)), call.args.duration)
      [] call.op = "typeText" ->
            /\ Len(a) = 4
            /\ validateTypeText(call.args.text) = Ok(call.args.text)
            /\ a[2] = call.args.text.s
            /\ ~ContainsDenied(a[2])
      [] OTHER -> a = <<S_describe_ui, S_udid, a[3]>>

\* C3: in a call of tap, swipe, gesture, typeText or describeUI every value of
\* the caller that is in the argument vector of the axe command was accepted
\* by its validator or by the preset whitelist; when a check fails no axe
\* command is executed in that call.
C3_OnlyValidatedArguments ==
    call.layer = "facade" => \A k \in AxeLaunches : Validated(log[k].args)

\* a tap by label was executed with the validated label
C3_Witness ==
    /\ call.layer = "facade" /\ call.op = "tap"
    /\ \E k \in AxeLaunches : log[k].args[4] = S_label /\ log[k].args[5] = S_OK

\* both a coordinate pair and an identifier are supplied
BothSupplied == call.args.x # Undef /\ call.args.y # Undef /\ call.args.id # Undef

\* C7: a tap request that supplies a coordinate pair and an accessibility
\* identifier at the same time is rejected before any gateway invocation.
C7_BothRejected ==
    (call.op = "tap" /\ call.layer \in {"facade", "tool"} /\ BothSupplied) =>
        Refused /\ log = <<>>

\* none of a coordinate pair, an identifier and a label is supplied
NoneSupplied ==
    /\ ~(call.args.x # Undef /\ call.args.y # Undef)
    /\ call.args.id = Undef
    /\ call.args.label = Undef

\* C8: a tap request that supplies none of a coordinate pair, an identifier
\* and a label is reported as a contract error before any gateway invocation
\* is attempted, through TapTool.execute and through SimulatorService.tap.
C8_NoneRejectedFirst ==
    (call.op = "tap" /\ call.layer \in {"facade", "tool"} /\ NoneSupplied) =>
        /\ Refused
        /\ log = <<>>

\* C9: gesture with a preset outside the closed set fails with the
\* invalid-preset error before any gateway invocation, whatever the device
\* state is.
C9_InvalidPresetFirst ==
    (call.layer = "facade" /\ call.op = "gesture" /\ ~IsValidPreset(call.args.preset)) =>
        /\ res.err = "Invalid gesture preset"
        /\ log = <<>>

\* C10: for a preset of the closed set and a booted device ID, gesture
\* executes the vector [axe, gesture, preset, --udid, ID] followed by
\* [--duration, d] exactly when options.duration is defined and valid, and
\* without a duration flag when no duration is given, also when SwipeTool
\* forwards an absent duration; a defined duration that is not valid stops
\* the call before axe.
C10_GestureVector ==
    LET viaTool == call.layer = "tool" /\ call.op = "swipe" /\ Truthy(call.args.direction)
        preset  == IF viaTool THEN call.args.direction ELSE call.args.preset
        dur     == call.args.duration
        base    == <<S_gesture, preset.s, S_udid, sim[1]>>
        valid   == Within(ToNumber(dur), 0, 60)
    IN  (/\ (call.layer = "facade" /\ call.op = "gesture") \/ viaTool
         /\ IsValidPreset(preset)
         /\ viaTool => ProbeReportedBooted
         /\ DeviceBooted) =>
            IF dur # Undef /\ ~valid THEN AxeLaunches = {} /\ Refused
            ELSE /\ AxeLaunches = {Len(log)}
                 /\ log[Len(log)].args =
                       IF dur = Undef THEN base
                       ELSE base \o <<S_duration, NumToString(ToNumber(dur))>>

\* a gesture was executed with a duration of 0
C10_Witness ==
    /\ call.layer = "facade" /\ call.op = "gesture"
    /\ call.args.duration = Num(0)
    /\ \E k \in AxeLaunches : Len(log[k].args) = 6 /\ log[k].args[6] = <<"0">>

\* the four coordinates of a swipe request
SwipeCoordinates ==
    <<call.args.startX, call.args.startY, call.args.endX, call.args.endY>>

\* C11: swipe executes the axe swipe command only when all four coordinates
\* are supplied (none undefined, none null) and each is within [0, 5000], and
\* when a supplied duration is within [0, 60].
C11_SwipeNeedsAllFour ==
    (/\ call.op = "swipe"
     /\ call.layer \in {"facade", "tool"}
     /\ AxeLaunches # {}) =>
        /\ \A k \in 1..4 :
              /\ SwipeCoordinates[k] \notin {Undef, Null}
              /\ Within(ToNumber(SwipeCoordinates[k]), 0, 5000)
        /\ call.args.duration # Undef => Within(ToNumber(call.args.duration), 0, 60)

\* the launched process did not run to an exit with status 0
FailedLaunch(k) ==
    log[k].answer.error \/ log[k].answer.killed \/ log[k].answer.status # 0

\* the launch k is the command the tool of the call is for
OperationLaunch(k) ==
    CASE call.op = "tap" -> log[k].file = AXE_PATH /\ log[k].args[1] = S_tap
      [] call.op = "swipe" -> log[k].file = AXE_PATH /\ log[k].args[1] \in {S_swipe, S_gesture}
      [] call.op = "type_text" -> log[k].file = AXE_PATH /\ log[k].args[1] = S_type
      [] call.op = "describe_ui" -> log[k].file = AXE_PATH /\ log[k].args[1] = S_describe_ui
      [] call.op = "get_screenshot" ->
            log[k].file = XCRUN_PATH /\ log[k].args = <<S_simctl, S_io, S_booted, S_screenshot, S_dash>>
      [] OTHER -> log[k].file = XCRUN_PATH /\ log[k].args = <<S_simctl, S_list, S_devices, S_json>>

\* the outputs that are well-formed JSON
WellFormedDocuments == {<<"[", "]">>, <<"{", "}">>, S_tree}

\* C12: for every tool and every argument bag, a failure of a validator, of
\* the gateway, of the facade or of the parsing of an output ends in a
\* response with isError true and one text part: a response without the flag
\* is given only when every launched process succeeded, the command of the
\* tool was the last of them and a JSON output was well formed.
C12_FailuresBecomeErrorResponses ==
    call.layer = "tool" =>
        /\ res.isError => res.content = <<"text">>
        /\ (\E k \in 1..Len(log) : FailedLaunch(k)) => res.isError
        /\ ~res.isError =>
              /\ Len(log) >= 1
              /\ OperationLaunch(Len(log))
              /\ call.op \in {"describe_ui", "list_devices"} =>
                    log[Len(log)].answer.stdout \in WellFormedDocuments
              /\ call.op = "type_text" => validateTypeText(call.args.text).err = ""

\* list_devices answers an output that is no JSON with an error response
C12_Witness ==
    /\ call.layer = "tool" /\ call.op = "list_devices"
    /\ Len(log) = 1 /\ ~FailedLaunch(1)
    /\ res.isError /\ res.message = "SyntaxError"

\* the tools that probe for a booted simulator first
ProbingTools == {"get_screenshot", "tap", "swipe", "type_text", "describe_ui"}

\* C13: when isSimulatorBooted reports false, each of the tools
\* get_screenshot, tap, swipe, type_text and describe_ui returns the error
\* response that names the missing simulator and invokes the gateway no
\* further: the enumeration of the probe is the only launch of the request.
C13_NoSimulatorNoInvocation ==
    (call.layer = "tool" /\ call.op \in ProbingTools /\ ~ProbeReportedBooted) =>
        /\ res.isError
        /\ res.message = "No iOS Simulator is currently running"
        /\ Len(log) = 1
        /\ log[1].file = XCRUN_PATH /\ log[1].args = ListBootedArgs

\* get_screenshot is refused while the enumeration lists no booted device
C13_Witness ==
    /\ call.layer = "tool" /\ call.op = "get_screenshot"
    /\ xcrunMode = "ok" /\ sim = <<>>
    /\ res.isError /\ Len(log) = 1

\* the operations of the facade that act on the booted device
DeviceOperations == {"tap", "swipe", "gesture", "typeText", "describeUI"}

\* the value that follows --udid in the argument vector a
UdidArg(a) == a[(CHOOSE k \in 1..(Len(a) - 1) : a[k] = S_udid) + 1]

\* C14: in any sequence of tap, swipe, gesture, typeText and describeUI calls
\* interleaved with changes of the booted device, the --udid value of a
\* call's axe invocation is the identifier found in the enumeration made in
\* that same call, the one of the device booted now, and validateUDID accepts
\* it; a call made while no device is booted fails with the
\* no-booted-simulator error and executes no axe command.
C14_UdidResolvedPerCall ==
    (call.layer = "facade" /\ call.op \in DeviceOperations) =>
        /\ \A k \in AxeLaunches :
              /\ k = 2
              /\ log[1].file = XCRUN_PATH /\ log[1].args = ListBootedArgs
              /\ ~FailedLaunch(1)
              /\ Includes(log[1].answer.stdout, UdidArg(log[k].args))
              /\ Len(sim) > 0 /\ UdidArg(log[k].args) = sim[1]
              /\ validateUDID(StrV(UdidArg(log[k].args))) = Ok(StrV(UdidArg(log[k].args)))
        /\ ~DeviceBooted =>
              /\ AxeLaunches = {}
              /\ res.err = "No simulator is currently booted"

\* a text is typed on the second device after the booted device changed
C14_Witness ==
    /\ call.layer = "facade" /\ call.op = "typeText"
    /\ Len(sim) > 0 /\ sim[1] = UdidB
    /\ \E k \in AxeLaunches : UdidArg(log[k].args) = UdidB

C16_ProbeNeverThrows ==
    (call.layer = "facade" /\ call.op = "isSimulatorBooted") =>
        /\ res.err = ""
        /\ Len(log) = 1
        /\ res.val = BoolV(~FailedLaunch(1) /\ Includes(log[1].answer.stdout, S_Booted))
        /\ res.val = BoolV(DeviceBooted)

\* the probe returned false when xcrun could not be launched
C16_Witness ==
    /\ call.layer = "facade" /\ call.op = "isSimulatorBooted"
    /\ xcrunMode = "enoent"
    /\ res.err = "" /\ res.val = BoolV(FALSE)

\* the nodes of a hierarchy in depth-first pre-order, each before its children
RECURSIVE PreOrder(_)
RECURSIVE PreOrderAll(_)
PreOrder(node) ==
    IF node.t # "object" THEN <<>>
    ELSE IF node.children.t = "array" THEN <<node>> \o PreOrderAll(node.children.items)
    ELSE <<node>>

PreOrderAll(list) ==
    IF Len(list) = 0 THEN <<>> ELSE PreOrder(Head(list)) \o PreOrderAll(Tail(list))

Labelled(node) == Len(node.AXLabel.s) > 0 \/ Len(node.AXUniqueId.s) > 0

\* the elements the hierarchy must give
Expected(nodes) ==
    LET all  == IF nodes.t = "array" THEN PreOrderAll(nodes.items) ELSE PreOrder(nodes)
        kept == SelectSeq(all, Labelled)
    IN  [k \in 1..Len(kept) |->
            [type |-> kept[k].type, label |-> kept[k].AXLabel, id |-> kept[k].AXUniqueId]]

C18_ReturnsForEveryDepth ==
    call.op = "extractElements" =>
        /\ res.err = ""
        /\ call.args.n = 2 => res = call.args.first

\* the launches whose process wrote more than the 10 MiB ceiling
Overflowing == {k \in 1..Len(log) : log[k].answer.bytes > MAX_BUFFER}

\* the facade operations that answer a failed enumeration with false or null
Probes == {"isSimulatorBooted", "getBootedUDID"}

\* C19: when a process writes more output than the 10 MiB ceiling, the gateway
\* call that launched it fails with an error, no call returns a result that
\* holds cut output, and the tool that made the call answers with an error
\* response.
C19_OverflowIsAFailure ==
    /\ \A k \in Overflowing :
          /\ log[k].answer.error
          /\ call.layer = "gateway" => res.err # ""
          /\ (call.layer = "facade" /\ call.op \notin Probes) => res.err # ""
          /\ (call.layer = "facade" /\ call.op \in Probes) => res.val \in {BoolV(FALSE), Null}
          /\ call.layer = "tool" => res.isError
    /\ (call.layer = "gateway" /\ res.err = "") =>
          \A k \in 1..Len(log) : log[k].answer.captured = log[k].answer.bytes

\* get_screenshot reports an error for an image of more than 10 MiB
C19_Witness ==
    /\ call.layer = "tool" /\ call.op = "get_screenshot"
    /\ Len(log) = 2 /\ 2 \in Overflowing
    /\ log[2].answer.captured = MAX_BUFFER
    /\ res.isError

RegistryAgrees ==
    /\ \A name \in RegistryNames : has(tools, name) <=> get(tools, name) # Undef
    /\ \A j, k \in 1..Len(getAllDefinitions(tools)) :
          getAllDefinitions(tools)[j].name = getAllDefinitions(tools)[k].name => j = k
    /\ {getAllDefinitions(tools)[k] : k \in 1..Len(getAllDefinitions(tools))}
          = {getDefinition(get(tools, name)) : name \in {n \in RegistryNames : has(tools, n)}}
    /\ (call.layer = "registry" /\ call.op = "get") => res.val = get(tools, call.args.name)
    /\ (call.layer = "registry" /\ call.op = "has") =>
          res.val = BoolV(get(tools, call.args.name) # Undef)
    /\ (call.layer = "registry" /\ call.op = "getAllDefinitions") =>
          res.val = getAllDefinitions(tools)

\* a step of register makes its tool the one found under its name and
\* leaves what is found under every other name; no other step changes a name
RegisterStep ==
    /\ call'.op = "register" =>
          /\ get(tools', call'.args.tool.name) = call'.args.tool
          /\ \A name \in RegistryNames \ {call'.args.tool.name} :
                get(tools', name) = get(tools, name)
    /\ call'.op # "register" =>
          \A name \in RegistryNames : get(tools', name) = get(tools, name)

\* C21: after any sequence of register calls, get(name) returns the tool most
\* recently registered under the name, or undefined when none was: a new
\* registry finds nothing, and each register call changes what is found
\* under its tool's name to that tool and nothing else; getAllDefinitions
\* holds exactly one definition for each registered name, taken from the
\* tool get finds; has(name) is true exactly when get(name) finds a tool.
C21_LastRegistrationWins ==
    /\ \A name \in RegistryNames : get(NewRegistry, name) = Undef
    /\ [] RegistryAgrees
    /\ [][RegisterStep]_vars

\* a second tool was registered under the name that was registered first,
\* with other names registered in between
C21_Witness ==
    /\ call.layer = "registry" /\ call.op = "register"
    /\ Len(tools) >= 2
    /\ tools[1] = call.args.tool
    /\ call.args.tool.description = "a second tap tool"

\* the tools the documentation names, and the object start-up makes for each
DocumentedTools ==
    {ScreenshotToolInstance, ListDevicesToolInstance, TapToolInstance, SwipeToolInstance,
     TypeTextToolInstance, DescribeUIToolInstance}

\* the arguments the CallTool handler hands to the tool
HandedArguments == IF Truthy(call.args.arguments) THEN call.args.arguments ELSE EmptyArguments

\* C23: after start-up each of the six documented tools is registered: the
\* tool list advertises all six, and a call request that names one of them
\* finds it, executes it once with the request's arguments (an empty record
\* when none are given) and returns its response unchanged.
C23_SixToolsServed ==
    \A tool \in DocumentedTools :
        /\ \E k \in 1..Len(getAllDefinitions(tools)) :
              getAllDefinitions(tools)[k] = getDefinition(tool)
        /\ (call.layer = "server" /\ call.op = "CallTool" /\ call.args.name = tool.name) =>
              /\ res.err = ""
              /\ res.val = ToolExecute(tool, HandedArguments, Env(call.args.ext)).resp
              /\ log = ToolExecute(tool, HandedArguments, Env(call.args.ext)).log

\* the characters of a US keyboard: letters, digits, the space and the
\* punctuation
USKeyboard ==
    Lower \cup Upper \cup Digit \cup
    {" ", "!", "\"", "#", "$", "%", "&", "'", "(", ")", "*", "+", ",", "-", ".", "/", ":",
     ";", "<", "=", ">", "?", "@", "[", "\\", "]", "^", "_", Backtick, "{", "|", "}", "~"}

\* C22: with a simulator booted, type_text accepts any text made of US
\* keyboard characters, such as "Hello World!": it passes the text to axe
\* type as one argument and, when the command succeeds, reports success.
C22_KeyboardTextTyped ==
    (/\ call.layer = "tool" /\ call.op = "type_text"
     /\ ProbeReportedBooted /\ DeviceBooted
     /\ IsString(call.args.text) /\ Len(call.args.text.s) > 0
     /\ \A k \in 1..Len(call.args.text.s) : call.args.text.s[k] \in USKeyboard) =>
        /\ \E k \in AxeLaunches : log[k].args = <<S_type, call.args.text.s, S_udid, sim[1]>>
        /\ (\A k \in 1..Len(log) : ~FailedLaunch(k)) => ~res.isError

(***************************************************************************)
(* Properties of the DeviceFormatter, checked under SpecD.                 *)
(***************************************************************************)
\* the devices of an enumeration, whatever their runtime
RECURSIVE Flatten(_)
Flatten(entries) ==
    IF Len(entries) = 0 THEN {}
    ELSE {Head(entries).list[k] : k \in 1..Len(Head(entries).list)} \cup Flatten(Tail(entries))

Enumerated(devicesData) ==
    IF "devices" \in DOMAIN devicesData THEN Flatten(devicesData.devices) ELSE {}

\* the devices list_devices has to report for the flag
ToReport(devicesData, flag) ==
    {d \in Enumerated(devicesData) : flag = BoolV(TRUE) => d.isAvailable = BoolV(TRUE)}

\* C24: list_devices with available_only true reports exactly the enumerated
\* devices whose isAvailable is true, and with available_only false or absent
\* every enumerated device; each reported device is an enumerated one with
\* its name, udid and state, and it is reported once.
C24_AvailableOnlyFilters ==
    call.op = "list_devices" /\ call.layer = "validator" =>
        LET reported == res.text.b
            due == ToReport(call.args.devicesData, call.args.available_only)
        IN  /\ {reported[k].udid : k \in 1..Len(reported)} = {d.udid : d \in due}
            /\ Len(reported) = Cardinality(due)
            /\ res.text.a = Num(Cardinality(due))
            /\ \A k \in 1..Len(reported) :
                  \E d \in due : /\ reported[k].udid = d.udid
                                 /\ reported[k].name = d.name
                                 /\ reported[k].state = d.state
                                 /\ reported[k].isAvailable = d.isAvailable

\* of two devices, one of them unavailable, one is reported
C24_Witness ==
    /\ call.op = "list_devices" /\ call.layer = "validator"
    /\ call.args.available_only = BoolV(TRUE)
    /\ Cardinality(Enumerated(call.args.devicesData)) = 2
    /\ Len(res.text.b) = 1
    /\ ~res.isError

\* C25: a device enumerated under the runtime key
\* "com.apple.CoreSimulator.SimRuntime.iOS-17-0" is reported with the runtime
\* "iOS 17.0"; a key that holds iOS-<major>-<minor> gives "iOS <major>.<minor>"
\* and any other key is returned unchanged.
C25_RuntimeKeyToVersion ==
    /\ call.op = "extractIOSVersion" =>
          res = StrV(IF call.args.ios
                     THEN <<"i", "O", "S", " ">> \o call.args.major \o <<".">> \o call.args.minor
                     ELSE call.args.key)
    /\ call.op = "parseDevices" =>
          \A k \in 1..Len(res) :
              \A j \in 1..Len(call.args.devicesData.devices) :
                  (\E q \in 1..Len(call.args.devicesData.devices[j].list) :
                       call.args.devicesData.devices[j].list[q].udid = res[k].udid) =>
                      res[k].runtime = IF j = 1 THEN <<"i", "O", "S", " ", "1", "7", ".", "0">>
                                       ELSE S_tvos

\* a device listed under the iOS-17-0 key came out with "iOS 17.0"
C25_Witness ==
    /\ call.op = "parseDevices"
    /\ Len(res) >= 1
    /\ Len(call.args.devicesData.devices[1].list) >= 1
    /\ res[1].udid = call.args.devicesData.devices[1].list[1].udid
    /\ res[1].runtime = <<"i", "O", "S", " ", "1", "7", ".", "0">>

(***************************************************************************)
(* Further properties of the facade and the tools, checked under Spec.     *)
(***************************************************************************)
Whitespace == {" ", "\n", "\t", "\r"}

\* a text without the whitespace at its two ends
RECURSIVE TrimStart(_)
TrimStart(s) == IF Len(s) > 0 /\ Head(s) \in Whitespace THEN TrimStart(Tail(s)) ELSE s

RECURSIVE TrimEnd(_)
TrimEnd(s) ==
    IF Len(s) > 0 /\ s[Len(s)] \in Whitespace THEN TrimEnd(SubSeq(s, 1, Len(s) - 1)) ELSE s

Trimmed(s) == TrimEnd(TrimStart(s))

\* C26: on success SimulatorService.tap returns the output of axe with the
\* whitespace around it removed, and "Tap completed" when axe printed no
\* text, also when the output is whitespace only.
C26_TapReturnsTrimmedOutput ==
    (call.layer = "facade" /\ call.op = "tap" /\ res.err = "") =>
        \E k \in AxeLaunches :
            res.val = StrV(IF Trimmed(log[k].answer.stdout) = <<>> THEN S_TapCompleted
                           ELSE Trimmed(log[k].answer.stdout))

\* the launches of a command that acts on the device
Mutating ==
    {k \in AxeLaunches : log[k].args[1] \in {S_tap, S_swipe, S_gesture, S_type}}

\* the call reports a failure to its caller
FailureReported ==
    CASE call.layer = "tool"   -> res.isError
      [] call.layer = "server" -> res.err # "" \/ res.val.isError
      [] OTHER                 -> res.err # ""

\* C27: within one call of a facade operation or of a tool's execute, the
\* command that acts on the device (axe tap, swipe, gesture, type) is executed
\* at most once; when it fails nothing is executed after it and the failure
\* is what the caller gets.
C27_MutatingCommandOnce ==
    call.layer \in {"facade", "tool", "server"} =>
        /\ Cardinality(Mutating) <= 1
        /\ \A k \in Mutating : FailedLaunch(k) => (k = Len(log) /\ FailureReported)

\* the tap of the tap tool failed: one launch of axe, an error response
C27_Witness ==
    /\ call.layer = "tool" /\ call.op = "tap"
    /\ Cardinality(Mutating) = 1
    /\ \E k \in Mutating : FailedLaunch(k) /\ log[k].args[1] = S_tap
    /\ res.isError

\* the launch k is axe describe-ui, it exited with status 0, and what it
\* printed is no JSON document
MalformedDump(k) ==
    /\ log[k].file = AXE_PATH
    /\ Len(log[k].args) >= 1 /\ log[k].args[1] = S_describe_ui
    /\ ~FailedLaunch(k)
    /\ log[k].answer.stdout \notin WellFormedDocuments

\* C28: when axe describe-ui succeeds and its output is not well-formed JSON,
\* describeUI throws the parse error, and the describe_ui tool returns an
\* error response for the format 'summary', for 'full' and for none: never a
\* success with an empty or 'no elements' result.
C28_MalformedDumpIsAnError ==
    \A k \in 1..Len(log) : MalformedDump(k) =>
        /\ (call.layer = "facade" /\ call.op = "describeUI") => res.err = "SyntaxError"
        /\ (call.layer = "tool" /\ call.op = "describe_ui") =>
              /\ res.isError
              /\ res.message = "SyntaxError"
              /\ res.content = <<"text">>

\* describe_ui in the format 'full' got "ok" and a line feed from axe
C28_Witness ==
    /\ call.layer = "tool" /\ call.op = "describe_ui"
    /\ call.args.format = StrV(S_full)
    /\ \E k \in 1..Len(log) : MalformedDump(k) /\ log[k].answer.stdout = S_ok
    /\ res.isError

\* the tools that probe first and then let the facade resolve the device
ResolvingTools == {"tap", "swipe", "type_text", "describe_ui"}

\* C29: when the probe of tap, swipe, type_text or describe_ui reported a
\* booted device and no device is booted any more when the facade resolves
\* it in the same request, the tool returns an error response and executes
\* no axe command; whatever happens in between, every axe command carries
\* the identifier found by the enumeration the facade made just before it.
C29_ChangeBetweenProbeAndResolution ==
    (call.layer = "tool" /\ call.op \in ResolvingTools) =>
        /\ (ProbeReportedBooted /\ sim = <<>>) => (res.isError /\ AxeLaunches = {})
        /\ \A k \in AxeLaunches :
              /\ k = 3
              /\ log[2].file = XCRUN_PATH /\ log[2].args = ListBootedArgs
              /\ StrV(UdidArg(log[k].args)) = FirstUdidMatch(log[2].answer.stdout)
              /\ Len(sim) > 0 /\ UdidArg(log[k].args) = sim[1]

\* the device the probe of tap saw was shut down before tap resolved it
C29_Witness ==
    /\ call.layer = "tool" /\ call.op = "tap"
    /\ ProbeReportedBooted /\ sim = <<>>
    /\ Len(log) = 2
    /\ res.isError /\ res.message = "No simulator is currently booted"

\* the selector of an executed axe tap: the arguments behind the udid
SelectorOf(k) == SubSeq(log[k].args, 4, Len(log[k].args))

\* C30: for every argument bag for which the tap tool returns success, the
\* selector its text names (coordinates, id or label) is the selector of the
\* executed axe tap (-x and -y, --id with that id, --label with that label),
\* also when several selectors are given or an empty id stands beside a label.
C30_SuccessTextNamesSelector ==
    (call.layer = "tool" /\ call.op = "tap" /\ ~res.isError) =>
        \E k \in AxeLaunches :
            CASE res.text.what = "Tapped at coordinates" ->
                    Len(SelectorOf(k)) = 4 /\ SelectorOf(k)[1] = S_x /\ SelectorOf(k)[3] = S_y
              [] res.text.what = "Tapped element with id" ->
                    IsString(res.text.a) /\ SelectorOf(k) = <<S_id, res.text.a.s>>
              [] OTHER ->
                    IsString(res.text.a) /\ SelectorOf(k) = <<S_label, res.text.a.s>>

====
